---- MODULE Spec2Model ----
(***************************************************************************)
(* Progressive loading of an MP3 stream in phonograph: the FetchLoader     *)
(* transport, the segmenter of Clip.buffer (ondata / drainBuffer /         *)
(* onload), the Chunk life cycle (decode, attach, _ready, onready), the    *)
(* canplaythrough heuristic, Clip.duration and Clip.dispose.               *)
(*                                                                         *)
(* Clip is modelled from the Clip.ts that takes Chunk.onready              *)
(* (src/unnamed/part_001, lines 30-590), Chunk from the Chunk that goes    *)
(* with it (src/src/Loader.ts, lines 197-395; Chunk._ready, attach and     *)
(* onready are the same text in src/src/Chunk.ts).                         *)
(*                                                                         *)
(* Sizes are scaled: a frame is 3 bytes, CHUNK_SIZE is 11 bytes instead of *)
(* 64 KiB and the stripped prefix is 2 bytes instead of 32.  The scaling   *)
(* keeps the relations the code relies on: the prefix is shorter than a    *)
(* chunk, and the room left in tempBuffer once the drain threshold is      *)
(* passed (2 * CHUNK_SIZE - (CHUNK_SIZE + 4) - 1 bytes) holds two frames,  *)
(* so that a stream of back-to-back frames never overruns tempBuffer, not  *)
(* even when one frame header goes unrecognised.                           *)
(***************************************************************************)
EXTENDS Integers, Sequences, FiniteSets, TLC

(* ------------------------------ bounds -------------------------------- *)

\* Streams hold at most MaxFrames frames.
MaxFrames == 6

\* Transport loads started over the life of the Clip (buffer() after a
\* transport error or after dispose() starts a new one).
MaxLoads == 2

\* Date.now() - loadStartTime, as a handler reads it, is 0 or MaxElapsed, in
\* units of one frame duration.
MaxElapsed == 4

\* Calls of dispose() over the life of the Clip.
MaxDispose == 1

\* Decode attempts the engine rejects, over all chunks: with an error, or
\* with the null error the retry loop of Chunk exists for.
MaxDecodeFailures == 1

\* Calls of play() and assignments to currentTime by the caller of a clip
\* that is played, together (dispose() is the last call the caller makes);
\* and the reading of the output clock at which it stops advancing.
MaxCalls == 2
MaxClock == 4

\* Callbacks the caller subscribes.
MaxUserSubs == 1

(* --------------------------- program constants ------------------------ *)

\* const CHUNK_SIZE = 64 * 1024, scaled.
CHUNK_SIZE == 11

\* const firstByte = isFirstChunk ? 32 : 0, scaled.
HEADER_PREFIX == 2

\* getChunkDuration: 1152 / sampleRate seconds for every frame; the model's
\* unit of time is that one frame duration.
FRAME_DURATION == 1

\* The value null of a number-valued field (duration).
Null == 0 - 1

\* Chunk.next: undefined until attach(), then null or a chunk.
Undefined == 0 - 1
NoChunk == 0

(* ------------------------------ byte arrays --------------------------- *)

\* A Uint8Array is a sequence of bytes; offsets are 0-based as in the source.
\* Reading past the end yields undefined.
At(data, i) == IF i >= 0 /\ i < Len(data) THEN data[i + 1] ELSE Undefined

\* ToInt32 of an element read: undefined & mask = 0.
Int32(b) == IF b = Undefined THEN 0 ELSE b

\* utils/buffer slice(view, begin, end): the bytes at offsets begin .. end-1,
\* clamped to the array.
slice(view, begin, end) ==
    LET e == IF end > Len(view) THEN Len(view) ELSE end
    IN  IF begin >= e THEN << >> ELSE SubSeq(view, begin + 1, e)

Zeros(n) == [i \in 1..n |-> 0]

RECURSIVE SumSeq(_)
SumSeq(s) == IF s = << >> THEN 0 ELSE Head(s) + SumSeq(Tail(s))

(* ------------------------------ mp3 adapter --------------------------- *)

\* parseFrameHeader(data, i) is not false: frame sync in data[i], data[i+1],
\* layer not reserved, bitrate not 1111, sampling rate not 11.
parseFrameHeader(data, i) ==
    LET b0 == At(data, i)
        b1 == Int32(At(data, i + 1))
        b2 == Int32(At(data, i + 2))
    IN  /\ b0 = 255
        /\ b1 \div 16 = 15
        /\ (b1 \div 2) % 4 # 0
        /\ b2 \div 16 # 15
        /\ (b2 \div 4) % 4 # 3

\* adapter.validateChunk(data, i) and the truth of adapter.getChunkMetadata.
validateChunk(data, i) == parseFrameHeader(data, i)

\* One frame of the modelled streams: sync byte, 0xFB, a byte with a valid
\* bitrate and sampling rate.
FrameBytes == <<255, 251, 0>>

\* adapter.getChunkLength: the streams are constant-bitrate, every frame has
\* the length of FrameBytes.
getChunkLength(data, i) == Len(FrameBytes)

\* adapter.getChunkDuration.
getChunkDuration(data, i) == FRAME_DURATION

(* --------------------------------- Chunk ------------------------------ *)

NoCallback == [kind |-> "none", load |-> 0]

\* The frame walk of the decode callback, from offset i: <<numFrames, duration>>.
RECURSIVE FrameWalk(_, _)
FrameWalk(raw, i) ==
    IF i >= Len(raw) THEN <<0, 0>>
    ELSE IF validateChunk(raw, i)
         THEN LET rest == FrameWalk(raw, i + getChunkLength(raw, i))
              IN  <<rest[1] + 1, rest[2] + getChunkDuration(raw, i)>>
         ELSE FrameWalk(raw, i + 1)

\* new Chunk({raw, onready, ...}), created by load number `load`.
NewChunk(raw, onready, load) ==
    [ raw        |-> raw,
      extended   |-> << >>,
      hasExtended |-> FALSE,
      duration   |-> Null,
      numFrames  |-> 0,
      ready      |-> FALSE,
      next       |-> Undefined,
      attached   |-> FALSE,
      callback   |-> onready,
      firstByte  |-> 0,
      decode     |-> "pending",
      position   |-> [start |-> 0, end |-> 0, index |-> 0],
      \* history, not program state
      byOnload     |-> FALSE,                 \* drained by onload
      load         |-> load,                  \* the load that created it
      ctorCallback |-> onready.kind # "none", \* constructed with an onready
      ctorCalls    |-> 0,      \* calls of the constructor's onready
      ctorLost     |-> FALSE,  \* it was replaced in the slot before a call
      onreadyRegs  |-> 0,      \* callbacks passed to Chunk.onready
      onreadyCalls |-> 0,      \* calls of those
      onreadyLost  |-> 0,      \* those replaced in the slot before a call
      attachCalls  |-> 0,      \* calls of attach
      attachNull   |-> 0,      \* calls of attach(null)
      readyVia     |-> "none", \* the call of _ready that made it ready
      lastError    |-> "none" ]\* what its last failed decode reported:
                               \* "error" (an error object) or "null"

(* ------------------------- the state of the program ------------------- *)

VARIABLES
    stream,          \* the bytes the URL serves
    contentLength,   \* the content-length header of its response (0: none)
    heap,            \* every Chunk ever constructed, by identity (1, 2, ..)
    chunks,          \* Clip._chunks: the chain, as chunk identities
    loaded,          \* Clip.loaded
    canplaythrough,  \* Clip.canplaythrough
    loadStarted,     \* Clip._loadStarted
    length,          \* Clip.length
    buffered,        \* Clip.buffered
    metadata,        \* Clip.metadata is set
    cancelled,       \* FetchLoader._cancelled
    loads,           \* one record per loader.load() call: the transport's
                     \* progress and the closure of Clip.buffer it feeds
    timers,          \* callbacks handed to setTimeout, not yet run
    events,          \* how often each event was fired
    hist,            \* history of the run, not program state
    pb               \* playback: the Clip's playback fields, its event
                     \* subscribers, the promises of play() and buffer(), the
                     \* closures of _play and the audio graph

vars == <<stream, contentLength, heap, chunks, loaded, canplaythrough,
          loadStarted, length, buffered, metadata, cancelled, loads, timers,
          events, hist, pb>>

\* The mutable state the handlers work on, as one record.
World ==
    [ heap |-> heap, chunks |-> chunks, loaded |-> loaded,
      canplaythrough |-> canplaythrough, loadStarted |-> loadStarted,
      length |-> length, buffered |-> buffered, metadata |-> metadata,
      cancelled |-> cancelled, loads |-> loads, timers |-> timers,
      events |-> events, hist |-> hist, pb |-> pb ]

(* ------------------------- Clip: events, heuristic -------------------- *)

\* The events whose fires are counted, and the events of a Clip.
CountedEvents ==
    {"canplaythrough", "load", "loaderror", "dispose",
     "play", "pause", "ended", "playbackerror"}
EventNames == CountedEvents \cup {"progress"}

\* A subscriber of an event: an entry of this.callbacks[eventName]. `kind`
\* is what the callback does, `arg` the promise or the _play closure it
\* belongs to, `once` whether it is the wrapper Clip.once builds.
\*   "fulfil", "reject"  the resolving functions of a promise
\*   "disposed"          the 'dispose' callback of play()
\*   "pauseListener"     the 'pause' callback of _play
\*   "userAdd"           a callback of the caller that subscribes a further
\*                       callback to the event when it is invoked
\*   "userPlain"         a callback of the caller that does nothing else
\*   "userFire"          a callback of the caller that fires the event
\*                       again, the first time it is invoked
\*   "userOnce"          a callback of the caller registered with once
NewSub(id, kind, once, arg) ==
    [id |-> id, kind |-> kind, once |-> once, arg |-> arg]

\* The identities of a list of subscribers.
SubIds(subs) == [i \in 1..Len(subs) |-> subs[i].id]

\* The sequence a begins the sequence b.
IsPrefixOf(a, b) == Len(a) <= Len(b) /\ a = SubSeq(b, 1, Len(a))

\* Clip.on(eventName, cb) for a new callback.
on(w, eventName, kind, once, arg) ==
    [w EXCEPT !.pb.callbacks[eventName] =
                  Append(@, NewSub(w.pb.subs + 1, kind, once, arg)),
              !.pb.subs = @ + 1]

\* Clip.off(eventName, cb): indexOf and splice.
off(w, eventName, id) ==
    [w EXCEPT !.pb.callbacks[eventName] =
                  SelectSeq(@, LAMBDA sub : sub.id # id)]

\* Clip.once(eventName, cb).
once(w, eventName, kind, arg) == on(w, eventName, kind, TRUE, arg)

\* A new pending promise; `cont` is what its then() runs on fulfilment.
NewPromise(kind, cont) ==
    [kind |-> kind, state |-> "pending", code |-> "none", cont |-> cont]

\* fulfil or reject of promise q: a settled promise stays as it is; a
\* fulfilment queues the reaction of then() as a microtask.
Settle(w, q, state, code) ==
    IF w.pb.promises[q].state # "pending" THEN w
    ELSE [w EXCEPT !.pb.promises[q].state = state,
                   !.pb.promises[q].code = code,
                   !.pb.microtasks =
                       IF state = "fulfilled" /\ w.pb.promises[q].cont # "none"
                       THEN Append(@, w.pb.promises[q].cont)
                       ELSE @]

\* `if (source) source.stop()` for source n (0: the variable holds no
\* source). stop() on a source that was never started throws
\* InvalidStateError; nothing runs after an exception.
StopSource(w, n) ==
    IF n = 0 \/ w.pb.threw THEN w
    ELSE IF ~w.pb.sources[n].started THEN [w EXCEPT !.pb.threw = TRUE]
    ELSE [w EXCEPT !.pb.sources[n].stopped = TRUE]

\* pauseListener.cancel(), which an exception before it skips.
pauseListenerCancel(w, id) ==
    IF w.pb.threw THEN w ELSE off(w, "pause", id)

\* The 'pause' callback of the _play closure k.
pauseListener(w, k, id) ==
    pauseListenerCancel(
        StopSource(StopSource([w EXCEPT !.pb.sessions[k].playing = FALSE],
                              w.pb.sessions[k].previousSource),
                   w.pb.sessions[k].currentSource),
        id)

RECURSIVE Deliver(_, _, _)

\* The history a fire leaves: whether the callbacks invoked were those
\* subscribed when it began, each once and in their order; whether they
\* were at least the first of them, in their order, with an exception of
\* the last one invoked accounting for the rest; and whether the list
\* changed under a delivery to several subscribers. `outer` is the record
\* of the delivery this fire was issued in (empty when there is none).
Delivered(w, eventName, snapshot, outer) ==
    [w EXCEPT
       !.pb.invoked = outer,
       !.pb.misdelivered = @ \/ (w.pb.invoked # SubIds(snapshot)),
       !.pb.disordered =
           @ \/ (IF w.pb.threw
                 THEN ~IsPrefixOf(w.pb.invoked, SubIds(snapshot))
                 ELSE w.pb.invoked # SubIds(snapshot)),
       !.pb.aborted = @ \/ w.pb.threw,
       !.pb.changedDuring =
           @ \/ (/\ Len(snapshot) > 1
                 /\ SubIds(w.pb.callbacks[eventName]) # SubIds(snapshot)),
       !.pb.addedDuring =
           @ \/ (/\ snapshot # << >>
                 /\ \E i \in 1..Len(w.pb.callbacks[eventName]) :
                       \A j \in 1..Len(snapshot) :
                          snapshot[j].id # w.pb.callbacks[eventName][i].id)]

\* this._fire(eventName) called by a subscriber during a delivery.
Refire(w, eventName) ==
    Delivered(Deliver([w EXCEPT !.pb.invoked = << >>], eventName,
                      w.pb.callbacks[eventName]),
              eventName, w.pb.callbacks[eventName], w.pb.invoked)

\* What the callback of a subscriber does.
Callback(w, eventName, sub) ==
    CASE sub.kind = "fulfil" -> Settle(w, sub.arg, "fulfilled", "none")
      [] sub.kind = "reject" -> Settle(w, sub.arg, "rejected", eventName)
      [] sub.kind = "disposed" ->
           IF w.pb.ended THEN w
           ELSE Settle(w, sub.arg, "rejected", "CLIP_WAS_DISPOSED")
      [] sub.kind = "pauseListener" -> pauseListener(w, sub.arg, sub.id)
      [] sub.kind = "userAdd" -> on(w, eventName, "userPlain", FALSE, 0)
      [] sub.kind = "userFire" ->
           IF w.pb.refired THEN w
           ELSE Refire([w EXCEPT !.pb.refired = TRUE], eventName)
      [] OTHER -> w

\* The wrapper of Clip.once unsubscribes itself after the callback, unless
\* the callback threw.
Unsubscribe(w, eventName, sub) ==
    IF sub.once /\ ~w.pb.threw THEN off(w, eventName, sub.id) ELSE w

\* One callback of the list being delivered is invoked.
InvokeCb(w, eventName, sub) ==
    Unsubscribe(Callback([w EXCEPT
                            !.pb.invoked = Append(@, sub.id),
                            !.pb.onceAgain =
                                @ \/ (sub.once /\ sub.id \in w.pb.onceDone),
                            !.pb.onceDone =
                                IF sub.once THEN @ \cup {sub.id} ELSE @],
                         eventName, sub),
                eventName, sub)

\* callbacks.slice().forEach(cb => cb(data)): an exception a callback
\* throws ends the loop.
Deliver(w, eventName, subs) ==
    IF subs = << >> \/ w.pb.threw THEN w
    ELSE Deliver(InvokeCb(w, eventName, Head(subs)), eventName, Tail(subs))

\* Clip._fire(name).
fire(w, name) ==
    LET snapshot == w.pb.callbacks[name]
        w1 == IF name \in CountedEvents
              THEN [w EXCEPT !.events[name] = @ + 1] ELSE w
    IN  Delivered(Deliver(w1, name, snapshot), name, snapshot, << >>)

\* this.canplaythrough = true; this._fire('canplaythrough'), by the
\* heuristic or by the callback of onload; `duration` is the decoded
\* duration the caller had summed.
SetCanplaythrough(w, by, duration) ==
    LET f == fire([w EXCEPT !.canplaythrough = TRUE], "canplaythrough")
    IN  [f EXCEPT !.hist.cptSinceDispose = @ + 1,
                  !.hist.cptWhileSet = @ \/ w.canplaythrough,
                  !.hist.heuristicNoLength =
                      @ \/ (by = "heuristic" /\ w.length = 0),
                  !.hist.heuristicNoDuration =
                      @ \/ (by = "heuristic" /\ duration = 0),
                  !.hist.heuristicFired = @ \/ (by = "heuristic")]

\* The chunks the loop of checkCanplaythrough visits: the chain up to the
\* first chunk whose duration is falsy (null or 0).
RECURSIVE DecodedPrefix(_, _)
DecodedPrefix(h, chain) ==
    IF chain = << >> THEN << >>
    ELSE IF h[Head(chain)].duration = Null \/ h[Head(chain)].duration = 0
         THEN << >>
         ELSE <<Head(chain)>> \o DecodedPrefix(h, Tail(chain))

\* availableAudio > estimatedTimeToDownload, in exact arithmetic.
\*   bitrate = totalLoadedBytes / elapsed
\*   estimatedTimeToDownload = 1.5 * (length - totalLoadedBytes) / bitrate
\*   availableAudio = bytes / length * (duration * (length / bytes)) = duration
\* elapsed = 0 makes bitrate Infinity (NaN when nothing was loaded) and the
\* estimate 0; totalLoadedBytes = 0 with elapsed > 0 makes it Infinity.
EnoughAudio(duration, totalLoadedBytes, len, elapsed) ==
    IF elapsed = 0 THEN totalLoadedBytes > 0
    ELSE IF totalLoadedBytes = 0 THEN FALSE
    ELSE 2 * duration * totalLoadedBytes > 3 * (len - totalLoadedBytes) * elapsed

\* The duration the loop of checkCanplaythrough sums.
DecodedDuration(h, chain) ==
    LET pre == DecodedPrefix(h, chain)
    IN  SumSeq([i \in 1..Len(pre) |-> h[pre[i]].duration])

\* A variant of checkCanplaythrough that takes an unknown length and an
\* empty decoded prefix for "nothing left to wait for" instead of returning.
checkCanplaythroughUnguarded(w, l, t) ==
    IF w.canplaythrough THEN w
    ELSE LET duration == DecodedDuration(w.heap, w.chunks)
         IN  IF \/ w.length = 0
                \/ duration = 0
                \/ EnoughAudio(duration, w.loads[l].totalLoadedBytes,
                               w.length, t)
             THEN SetCanplaythrough(w, "heuristic", duration)
             ELSE w

\* A variant of checkCanplaythrough without the test of this.canplaythrough.
checkCanplaythroughRepeat(w, l, t) ==
    IF w.length = 0 THEN w
    ELSE LET duration == DecodedDuration(w.heap, w.chunks)
         IN  IF duration = 0 THEN w
             ELSE IF EnoughAudio(duration, w.loads[l].totalLoadedBytes,
                                 w.length, t)
                  THEN SetCanplaythrough(w, "heuristic", duration)
                  ELSE w

\* checkCanplaythrough of the closure of load l; t is what the handler it
\* runs in reads as Date.now() - loadStartTime.
checkCanplaythrough(w, l, t) ==
    IF w.canplaythrough \/ w.length = 0 THEN w
    ELSE LET duration == DecodedDuration(w.heap, w.chunks)
             elapsed  == t
         IN  IF duration = 0 THEN w
             ELSE IF EnoughAudio(duration, w.loads[l].totalLoadedBytes,
                                 w.length, elapsed)
                  THEN SetCanplaythrough(w, "heuristic", duration)
                  ELSE w

\* The callback onload hands to Chunk.onready.
onloadCallback(w) ==
    LET w1 == IF ~w.canplaythrough
              THEN SetCanplaythrough(w, "onload", 0)
              ELSE w
    IN  fire([w1 EXCEPT !.loaded = TRUE], "load")

\* Run the readiness callback cb of chunk c.
RunCallback(w, c, cb, t) ==
    IF cb.kind = "check"
    THEN LET w1 == [w EXCEPT
                      !.heap[c].ctorCalls = @ + 1,
                      !.hist.callbackBeforeAttach = @ \/ ~w.heap[c].attached,
                      !.hist.recheckWhenSet = @ \/ w.canplaythrough,
                      !.hist.skippedNoLength =
                          @ \/ (~w.canplaythrough /\ w.length = 0),
                      !.hist.skippedNoDuration =
                          @ \/ (/\ ~w.canplaythrough
                                /\ w.length # 0
                                /\ DecodedDuration(w.heap, w.chunks) = 0)]
             w2 == checkCanplaythrough(w1, cb.load, t)
         IN  [w2 EXCEPT !.hist.recheckEffect =
                            @ \/ (w.canplaythrough /\ w2 # w1)]
    ELSE onloadCallback(
             [w EXCEPT !.heap[c].onreadyCalls = @ + 1,
                       !.loads[cb.load].loadFired = @ + 1,
                       !.hist.callbackBeforeAttach = @ \/ ~w.heap[c].attached])

(* ----------------------- Chunk: _ready, attach, onready --------------- *)

\* The extended buffer _ready builds. With a successor it is a zero-filled
\* array of raw.length + (next.raw.length >> 1) bytes, written from offset 0
\* with raw from _firstByte on and then the first half of next.raw.
ExtendedOf(h, c) ==
    LET ch == h[c]
    IN  IF ch.next > NoChunk
        THEN LET nextLen == Len(h[ch.next].raw) \div 2
             IN  slice(ch.raw, ch.firstByte, Len(ch.raw))
                   \o slice(h[ch.next].raw, 0, nextLen)
                   \o Zeros(IF ch.firstByte < Len(ch.raw)
                            THEN ch.firstByte ELSE Len(ch.raw))
        ELSE IF ch.firstByte > 0
             THEN slice(ch.raw, ch.firstByte, Len(ch.raw))
             ELSE ch.raw

\* A variant of the condition of _ready that does not wait for attach().
CanBecomeReadyUnattached(ch) == ch.duration # Null

\* The condition under which _ready makes the chunk ready.
CanBecomeReady(ch) == ch.attached /\ ch.duration # Null

\* Chunk._ready() of chunk c, called by `via` (t: see checkCanplaythrough).
Chunk_ready(w, c, t, via) ==
    IF w.heap[c].ready THEN w
    ELSE IF CanBecomeReady(w.heap[c])
         THEN LET w1 == [w EXCEPT !.heap[c].ready = TRUE,
                                  !.heap[c].extended = ExtendedOf(w.heap, c),
                                  !.heap[c].hasExtended = TRUE,
                                  !.heap[c].readyVia = via]
                  cb == w1.heap[c].callback
              IN  IF cb.kind # "none"
                  THEN [RunCallback(w1, c, cb, t) EXCEPT
                            !.heap[c].callback = NoCallback]
                  ELSE w1
         ELSE w

\* Chunk.attach(nextChunk) of chunk c; nxt is a chunk or NoChunk (null).
Chunk_attach(w, c, nxt, t) ==
    Chunk_ready(
        [w EXCEPT !.heap[c].next = nxt,
                  !.heap[c].attached = TRUE,
                  !.heap[c].attachCalls = @ + 1,
                  !.heap[c].attachNull = IF nxt = NoChunk THEN @ + 1 ELSE @],
        c, t, "attach")

\* A variant of Chunk.onready that stores the callback in the slot even when
\* the chunk is ready already, where nothing will read it.
Chunk_onreadyStoreOnly(w, c, cb) ==
    [w EXCEPT !.heap[c].callback = cb,
              !.heap[c].onreadyRegs = @ + 1,
              !.heap[c].ctorLost = @ \/ (w.heap[c].callback.kind = "check"),
              !.heap[c].onreadyLost =
                  IF w.heap[c].callback.kind = "load" THEN @ + 1 ELSE @]

\* Chunk.onready(callback) of chunk c.
Chunk_onready(w, c, cb) ==
    IF w.heap[c].ready
    THEN [w EXCEPT !.timers = @ \cup {[chunk |-> c, cb |-> cb]},
                   !.heap[c].onreadyRegs = @ + 1]
    ELSE [w EXCEPT !.heap[c].callback = cb,
                   !.heap[c].onreadyRegs = @ + 1,
                   !.heap[c].ctorLost =
                       @ \/ (w.heap[c].callback.kind = "check"),
                   !.heap[c].onreadyLost =
                       IF w.heap[c].callback.kind = "load" THEN @ + 1 ELSE @]

(* ------------------------- Clip.buffer: the segmenter ----------------- *)

\* new Uint8Array(CHUNK_SIZE * 2): the bytes tempBuffer has room for. The
\* model keeps the part of tempBuffer below p; a write at or beyond the end
\* of a typed array is dropped.
TempBufferSize == CHUNK_SIZE * 2

\* The drain condition of ondata, byte i of the piece being the next byte.
ShouldDrain(p, piece, i) == p > CHUNK_SIZE + 4 /\ validateChunk(piece, i)

\* A variant of drainBuffer that puts the new chunk at the front of the chain
\* (unshift for push).
drainBufferUnshift(w, l, t) ==
    LET ld        == w.loads[l]
        firstByte == IF w.chunks = << >> THEN HEADER_PREFIX ELSE 0
        onready   == IF w.canplaythrough THEN NoCallback
                     ELSE [kind |-> "check", load |-> l]
        chunk     == Len(w.heap) + 1
        w1 == [w EXCEPT !.heap = Append(@,
                   [NewChunk(slice(ld.tempBuffer, firstByte, ld.p), onready, l)
                      EXCEPT !.position = [start |-> ld.processedBytes,
                                           end   |-> ld.p,
                                           index |-> Len(w.chunks)]])]
        w2 == IF w1.chunks # << >>
              THEN Chunk_attach(w1, w1.chunks[Len(w1.chunks)], chunk, t)
              ELSE w1
    IN  [w2 EXCEPT !.chunks = <<chunk>> \o @,
                   !.loads[l].processedBytes = @ + ld.p,
                   !.loads[l].p = 0,
                   !.loads[l].tempBuffer = << >>]

\* drainBuffer() of the closure of load l.
drainBuffer(w, l, t) ==
    LET ld        == w.loads[l]
        firstByte == IF w.chunks = << >> THEN HEADER_PREFIX ELSE 0
        onready   == IF w.canplaythrough THEN NoCallback
                     ELSE [kind |-> "check", load |-> l]
        chunk     == Len(w.heap) + 1
        w1 == [w EXCEPT !.heap = Append(@,
                   [NewChunk(slice(ld.tempBuffer, firstByte, ld.p), onready, l)
                      EXCEPT !.position = [start |-> ld.processedBytes,
                                           end   |-> ld.p,
                                           index |-> Len(w.chunks)]])]
        w2 == IF w1.chunks # << >>
              THEN Chunk_attach(w1, w1.chunks[Len(w1.chunks)], chunk, t)
              ELSE w1
    IN  [w2 EXCEPT !.chunks = Append(@, chunk),
                   !.loads[l].processedBytes = @ + ld.p,
                   !.loads[l].p = 0,
                   !.loads[l].tempBuffer = << >>]

\* tempBuffer[p++] = b for every byte b of bytes, in order.
WriteBytes(w, l, bytes) ==
    [w EXCEPT !.loads[l].tempBuffer = slice(@ \o bytes, 0, TempBufferSize),
              !.loads[l].p = @ + Len(bytes)]

\* The second loop of ondata, from byte i of the piece. Between two drains
\* every byte is written and p grows by one per byte, so the next drain is at
\* the first byte j >= i at which the drain condition holds for p + (j - i).
RECURSIVE ondataLoop(_, _, _, _, _)
ondataLoop(w, l, piece, i, t) ==
    LET p      == w.loads[l].p
        drains == {j \in i..(Len(piece) - 1) : ShouldDrain(p + (j - i), piece, j)}
    IN  IF drains = {}
        THEN WriteBytes(w, l, slice(piece, i, Len(piece)))
        ELSE LET j  == CHOOSE d \in drains : \A e \in drains : d <= e
                 w1 == drainBuffer(WriteBytes(w, l, slice(piece, i, j)), l, t)
             IN  ondataLoop(WriteBytes(w1, l, <<piece[j + 1]>>),
                            l, piece, j + 1, t)

\* ondata(uint8Array) of the closure of load l.
ondata(w, l, piece, t) ==
    LET w1 == [w EXCEPT !.metadata =
                   @ \/ (Len(piece) > 0 /\ validateChunk(piece, 0))]
        w2 == ondataLoop(w1, l, piece, 0, t)
    IN  [w2 EXCEPT !.loads[l].totalLoadedBytes = @ + Len(piece)]

\* onprogress(progress, length, total).
onprogress(w, len, total) ==
    [w EXCEPT !.buffered = len, !.length = total,
              !.hist.idleProgress = @ \/ w.hist.idle]

\* A variant of the first part of onload that attaches "no successor" to the
\* first chunk of the chain instead of the chunk drainBuffer returned.
onloadDrainAttachFirst(w, l, t) ==
    IF w.loads[l].p # 0
    THEN LET d == drainBuffer(w, l, t)
             a == Chunk_attach(d, d.chunks[1], NoChunk, t)
         IN  [a EXCEPT !.loads[l].totalLoadedBytes = @ + a.loads[l].p,
                       !.heap[Len(d.heap)].byOnload = TRUE,
                       !.loads[l].attachNull = @ + 1,
                       !.loads[l].attachNullOnLast =
                           @ /\ d.chunks[Len(d.chunks)] = d.chunks[1]]
    ELSE w

\* The part of onload before this._chunks[0] is read.
onloadDrain(w, l, t) ==
    IF w.loads[l].p # 0
    THEN LET d == drainBuffer(w, l, t)
             a == Chunk_attach(d, Len(d.heap), NoChunk, t)
         IN  [a EXCEPT !.loads[l].totalLoadedBytes = @ + a.loads[l].p,
                       !.heap[Len(d.heap)].byOnload = TRUE,
                       !.loads[l].attachNull = @ + 1,
                       !.loads[l].attachNullOnLast =
                           @ /\ d.chunks[Len(d.chunks)] = Len(d.heap)]
    ELSE w

\* onerror(error) of Clip.buffer.
onerror(w) ==
    [fire([w EXCEPT !.hist.codes["COULD_NOT_LOAD"] = @ + 1], "loaderror")
       EXCEPT !.loadStarted = FALSE]

\* onload() of the closure of load l, as FetchLoader calls it: this._chunks[0]
\* of an empty chain is undefined, the TypeError of .onready on it rejects the
\* promise of read() and FetchLoader's catch hands it to onerror.
onload(w, l, t) ==
    LET w1 == onloadDrain(w, l, t)
    IN  IF w1.chunks = << >>
        THEN [onerror(w1) EXCEPT !.loads[l].phase = "failed",
                                 !.loads[l].onloadThrew = TRUE]
        ELSE [Chunk_onready(w1, w1.chunks[1], [kind |-> "load", load |-> l])
                 EXCEPT !.loads[l].phase = "done",
                        !.loads[l].onloadChunk = w1.chunks[1]]

\* The onerror of the Chunk constructor in drainBuffer.
\* A variant of the onerror handed to a Chunk that reports the failure as
\* the transport's onerror does.
chunkOnerrorAsLoad(w) == onerror(w)

\* onerror(error) of the Chunk that drainBuffer creates.
chunkOnerror(w) ==
    fire([w EXCEPT !.hist.codes["COULD_NOT_DECODE"] = @ + 1], "loaderror")

(* ------------------------------- streams ------------------------------ *)

RECURSIVE Frames(_)
Frames(n) == IF n = 0 THEN << >> ELSE FrameBytes \o Frames(n - 1)

\* A stream: `lead` bytes that are no frame (a tag), then n frames.
Stream(lead, n) == Zeros(lead) \o Frames(n)

\* The streams a load is run on: 1 to MaxFrames frames, behind a tag of the
\* length Clip strips or behind none; and streams without any frame: the
\* empty one, one byte, and one longer than tempBuffer.
Streams ==
    { Stream(lead, n) : lead \in {0, HEADER_PREFIX}, n \in 1..MaxFrames }
      \cup { Zeros(k) : k \in {0, 1, TempBufferSize + 1} }

\* The lengths reader.read() may deliver at offset pos of the stream: all
\* that is left, or a piece of more than CHUNK_SIZE bytes that ends right
\* behind the first byte of a frame header.
PieceLengths(pos) ==
    { n \in 1..(Len(stream) - pos) :
        \/ n = Len(stream) - pos
        \/ n > CHUNK_SIZE /\ stream[pos + n] = 255 }

\* What a handler may read as Date.now() - loadStartTime. Date.now() is the
\* wall clock: readings of successive handlers are not ordered.
Elapsed == {0, MaxElapsed}

(* ------------------------------- actions ------------------------------ *)

NewLoad ==
    [ phase |-> "fetch", pos |-> 0,
      tempBuffer |-> << >>, p |-> 0, processedBytes |-> 0,
      totalLoadedBytes |-> 0,
      \* history
      attachNull |-> 0,          \* calls of attach(null) by its onload
      attachNullOnLast |-> TRUE, \* .. each on the chunk then last in the chain
      onloadThrew |-> FALSE,     \* its onload ran and threw
      loadFired |-> 0,           \* 'load' fired by the callback of its onload
      onloadChunk |-> 0 ]        \* the chunk its onload gave the callback to

\* The values of error.phonographCode.
ErrorCodes ==
    {"COULD_NOT_LOAD", "COULD_NOT_DECODE",
     "COULD_NOT_START_PLAYBACK", "COULD_NOT_CREATE_SOURCE"}

InitHist ==
    [ cptSinceDispose |-> 0,          \* 'canplaythrough' fired since dispose
      cptWhileSet |-> FALSE,          \* .. fired while the flag was true
      heuristicFired |-> FALSE,       \* the heuristic set the flag
      heuristicNoLength |-> FALSE,    \* .. while Clip.length was 0
      heuristicNoDuration |-> FALSE,  \* .. with a decoded duration of 0
      skippedNoLength |-> FALSE,      \* the heuristic ran while length was 0
      skippedNoDuration |-> FALSE,    \* .. with a decoded duration of 0
      recheckWhenSet |-> FALSE,       \* the heuristic ran with the flag true
      recheckEffect |-> FALSE,        \* .. and changed the Clip
      callbackBeforeAttach |-> FALSE, \* a readiness callback ran before attach
      decodeFailures |-> 0,           \* decode attempts rejected
      codes |-> [c \in ErrorCodes |-> 0], \* errors fired, by phonographCode
      idle |-> FALSE,                 \* dispose() ran, no buffer() since
      idleProgress |-> FALSE ]        \* 'loadprogress' was fired then

(* ------------------------------ playback ------------------------------ *)

\* const OVERLAP = 0.2, scaled to one unit of time.
OVERLAP == 1

\* NaN: what arithmetic on undefined gives. Every comparison with it is
\* false.
NaN == 0 - 999
Plus(a, b) == IF a = NaN \/ b = NaN THEN NaN ELSE a + b
Minus(a, b) == IF a = NaN \/ b = NaN THEN NaN ELSE a - b
Greater(a, b) == a # NaN /\ b # NaN /\ a > b
AtLeast(a, b) == a # NaN /\ b # NaN /\ a >= b

\* The closure of one _play call that got past the search of its chunk.
NewSession(chunkIndex, timeOffset, position) ==
    [ playing |-> TRUE,            \* let playing
      chunkIndex |-> chunkIndex,   \* let chunkIndex: the next index to use
      chunk |-> 0,                 \* let chunk (0: undefined)
      previousSource |-> 0,        \* let previousSource (0: undefined)
      currentSource |-> 0,         \* let currentSource
      lastStart |-> NaN,           \* let lastStart (set by the first source)
      nextStart |-> NaN,           \* let nextStart
      timeOffset |-> timeOffset,
      decode |-> "none",   \* a createSource in flight: "first" or "advance"
      tick |-> FALSE,      \* setTimeout(tick, 500) is pending
      endGame |-> FALSE,   \* requestAnimationFrame(endGame) is pending
      frame |-> FALSE,     \* requestAnimationFrame(frame) is pending
      \* history
      position |-> position,       \* _currentTime when it started
      firstIndex |-> chunkIndex - 1,
      ended |-> 0,                 \* 'ended' fired by its endGame
      notReady |-> FALSE,          \* createSource threw: chunk not ready
      failed |-> FALSE ]           \* an errback of createSource ran

\* An AudioBufferSourceNode a callback of createSource was handed, with the
\* gain node it feeds.
NewSource(k, chunk, when, now, first, gain, clipPlaying, closurePlaying) ==
    [ session |-> k, chunk |-> chunk,
      started |-> TRUE,     \* source.start was called
      when |-> when,        \* the argument of source.start
      now |-> now,          \* context.currentTime at that call
      first |-> first,      \* started by the callback of _play itself
      stopped |-> FALSE,
      gain |-> gain,        \* the setValueAtTime calls: <<value, time>>
      \* history
      clipPlaying |-> clipPlaying,        \* this.playing at source.start
      closurePlaying |-> closurePlaying ] \* the closure's playing then

\* Clip.pause().
pause(w) ==
    IF ~w.pb.playing THEN w
    ELSE fire([w EXCEPT
                 !.pb.playing = FALSE,
                 !.pb.actualPlaying = FALSE,
                 !.pb.currentTime =
                     Plus(w.pb.startTime,
                          Minus(w.pb.clock, w.pb.contextTimeAtStart))],
              "pause")

\* The loop at the head of _play, from index i (0-based) with `time`
\* accumulated: the index and time it leaves, or a retry at a chunk whose
\* duration is falsy.
RECURSIVE FindChunk(_, _, _, _, _)
FindChunk(h, chain, position, i, time) ==
    IF i >= Len(chain) THEN [retry |-> FALSE, chunkIndex |-> i, time |-> time]
    ELSE LET d == h[chain[i + 1]].duration
         IN  IF d = Null \/ d = 0
             THEN [retry |-> TRUE, chunkIndex |-> i, time |-> time]
             ELSE IF Greater(time + d, position)
                  THEN [retry |-> FALSE, chunkIndex |-> i, time |-> time]
                  ELSE FindChunk(h, chain, position, i + 1, time + d)

\* Chunk.createSource of chunk c for the closure k: throws when the chunk is
\* not ready, else asks the engine to decode the extended buffer.
createSource(w, k, c, kind) ==
    IF ~w.heap[c].ready
    THEN [w EXCEPT !.pb.threw = TRUE, !.pb.sessions[k].notReady = TRUE]
    ELSE [w EXCEPT !.pb.sessions[k].decode = kind]

\* _play after the pause listener is subscribed: the closure k takes the
\* chunk at i = chunkIndex++ % length (reading a field of undefined throws
\* on an empty chain) and requests its source.
firstSource(w, k, chunkIndex) ==
    IF w.chunks = << >>
    THEN [w EXCEPT !.pb.threw = TRUE]
    ELSE createSource(
             [w EXCEPT !.pb.sessions[k].chunk =
                           w.chunks[(chunkIndex % Len(w.chunks)) + 1]],
             k, w.chunks[(chunkIndex % Len(w.chunks)) + 1], "first")

\* _play after 'play' is fired: the closure and its pause listener.
playClosure(w, chunkIndex, timeOffset) ==
    firstSource(
        on([w EXCEPT !.pb.sessions =
                         Append(@, NewSession(chunkIndex + 1, timeOffset,
                                              w.pb.currentTime))],
           "pause", "pauseListener", FALSE, Len(w.pb.sessions) + 1),
        Len(w.pb.sessions) + 1, chunkIndex)

\* Clip._play().
_play(w) ==
    LET found == FindChunk(w.heap, w.chunks, w.pb.currentTime, 0, 0)
    IN  IF found.retry
        THEN [w EXCEPT !.pb.playTimers = @ + 1]
        ELSE playClosure(
                 fire([w EXCEPT !.pb.startTime = w.pb.currentTime], "play"),
                 found.chunkIndex, Minus(w.pb.currentTime, found.time))

\* endGame after this.pause() returned (an exception of a 'pause' callback
\* skips it): `._currentTime = 0; this.ended = true; this._fire('ended')`.
endGameEnded(w, k) ==
    IF w.pb.threw THEN w
    ELSE fire([w EXCEPT !.pb.currentTime = 0,
                        !.pb.ended = TRUE,
                        !.pb.sessions[k].ended = @ + 1],
              "ended")

\* A variant of endGame that does not wait for the output clock.
endGameNoWait(w, k) == endGameEnded(pause(w), k)

\* endGame of the closure k.
endGame(w, k) ==
    IF AtLeast(w.pb.clock, w.pb.sessions[k].nextStart)
    THEN endGameEnded(pause(w), k)
    ELSE [w EXCEPT !.pb.sessions[k].endGame = TRUE]

\* A variant of advance that ignores this.loop.
advanceNoWrap(w, k) ==
    IF ~w.pb.sessions[k].playing THEN w
    ELSE LET n  == Len(w.chunks)
             i  == w.pb.sessions[k].chunkIndex
             c  == IF i >= n THEN 0 ELSE w.chunks[i + 1]
             w1 == [w EXCEPT !.pb.sessions[k].chunkIndex = @ + 1,
                             !.pb.sessions[k].chunk = c]
         IN  IF c # 0 THEN createSource(w1, k, c, "advance")
             ELSE endGame(w1, k)

\* advance of the closure k.
advance(w, k) ==
    IF ~w.pb.sessions[k].playing THEN w
    ELSE LET n  == Len(w.chunks)
             i0 == w.pb.sessions[k].chunkIndex
             i  == IF w.pb.loop /\ n > 0 THEN i0 % n ELSE i0
             c  == IF (w.pb.loop /\ n = 0) \/ i >= n THEN 0
                   ELSE w.chunks[i + 1]
             w1 == [w EXCEPT !.pb.sessions[k].chunkIndex = @ + 1,
                             !.pb.sessions[k].chunk = c]
         IN  IF c # 0 THEN createSource(w1, k, c, "advance")
             ELSE endGame(w1, k)

\* tick of the closure k.
tick(w, k) ==
    IF Greater(w.pb.clock, w.pb.sessions[k].lastStart)
    THEN advance(w, k)
    ELSE [w EXCEPT !.pb.sessions[k].tick = TRUE]

\* frame of the closure k.
frame(w, k) ==
    IF ~w.pb.sessions[k].playing THEN w
    ELSE fire([w EXCEPT !.pb.sessions[k].frame = TRUE], "progress")

\* `tick(); frame();` at the end of the first callback: an exception tick
\* throws ends the callback.
tickThenFrame(w, k) == IF w.pb.threw THEN w ELSE frame(w, k)

\* A variant of the start time of a later chunk: the reading of the clock
\* when its source arrives.
advanceStartNow(ss, now) == now

\* source.start(nextStart) in the callback of advance: the time the source
\* of a later chunk is started at.
advanceStart(ss, now) == ss.nextStart

\* A variant of the gain of a later chunk without the ramp: full at the
\* start, silent at the next start.
advanceGainNoRamp(start, nextStart) ==
    << <<1, start>>, <<0, nextStart>> >>

\* The setValueAtTime calls on the gain of a later chunk: <<value, time>>.
advanceGain(start, nextStart) ==
    << <<0, start>>,
       <<1, Plus(start, OVERLAP)>>,
       <<0, Plus(nextStart, OVERLAP)>> >>

\* The setValueAtTime call on the gain of the first chunk.
firstGain(nextStart) == << <<0, Plus(nextStart, OVERLAP)>> >>

\* The callback of _play for the source of the first chunk of the closure
\* k, handed a source of duration d - timeOffset. With a position that is
\* NaN, gain.gain.setValueAtTime(0, NaN) throws TypeError: the source is
\* assigned to currentSource and never started.
firstCallback(w, k, ss, n, now, nextStart) ==
    IF nextStart = NaN
    THEN [w EXCEPT
            !.pb.sessions[k].decode = "none",
            !.pb.sessions[k].currentSource = n,
            !.pb.contextTimeAtStart = now,
            !.pb.threw = TRUE,
            !.pb.sources = Append(@,
                [NewSource(k, ss.chunk, NaN, now, TRUE, << >>,
                           w.pb.playing, ss.playing)
                    EXCEPT !.started = FALSE])]
    ELSE tickThenFrame(
             tick([w EXCEPT
                     !.pb.sessions[k].decode = "none",
                     !.pb.sessions[k].currentSource = n,
                     !.pb.sessions[k].lastStart = now,
                     !.pb.sessions[k].nextStart = nextStart,
                     !.pb.contextTimeAtStart = now,
                     !.pb.actualPlaying = TRUE,
                     !.pb.sources = Append(@,
                         NewSource(k, ss.chunk, now, now, TRUE,
                                   firstGain(nextStart),
                                   w.pb.playing, ss.playing))],
                  k),
             k)

\* The callback of advance for the source of a later chunk of the closure
\* k, of duration d.
advanceCallback(w, k, ss, n, now, d) ==
    tick([w EXCEPT
            !.pb.sessions[k].decode = "none",
            !.pb.sessions[k].previousSource = ss.currentSource,
            !.pb.sessions[k].currentSource = n,
            !.pb.sessions[k].lastStart = ss.nextStart,
            !.pb.sessions[k].nextStart = Plus(ss.nextStart, d),
            !.pb.sources = Append(@,
                NewSource(k, ss.chunk, advanceStart(ss, now), now, FALSE,
                          advanceGain(ss.nextStart, Plus(ss.nextStart, d)),
                          w.pb.playing, ss.playing))],
         k)

\* The callback createSource hands the decoded source of the closure k to:
\* the one of _play for the first chunk, the one of advance for the others.
sourceCallback(w, k) ==
    IF w.pb.sessions[k].decode = "first"
    THEN firstCallback(w, k, w.pb.sessions[k], Len(w.pb.sources) + 1,
                       w.pb.clock,
                       Plus(w.pb.clock,
                            Minus(w.heap[w.pb.sessions[k].chunk].duration,
                                  w.pb.sessions[k].timeOffset)))
    ELSE advanceCallback(w, k, w.pb.sessions[k], Len(w.pb.sources) + 1,
                         w.pb.clock,
                         w.heap[w.pb.sessions[k].chunk].duration)

\* The errback createSource hands a decode failure of the closure k to.
sourceErrback(w, k) ==
    fire([w EXCEPT !.pb.sessions[k].decode = "none",
                   !.pb.sessions[k].failed = TRUE,
                   !.hist.codes[IF w.pb.sessions[k].decode = "first"
                                THEN "COULD_NOT_START_PLAYBACK"
                                ELSE "COULD_NOT_CREATE_SOURCE"] = @ + 1],
         "playbackerror")

\* Clip.buffer(): starts the load unless one is started, and returns a
\* promise whose then() runs `cont` ("none": the caller drops it).
buffer(w, cont) ==
    LET w0 == [w EXCEPT !.hist.idle = FALSE]
        w1 == IF ~w.loadStarted
              THEN [w0 EXCEPT !.loadStarted = TRUE,
                              !.cancelled = FALSE,
                              !.loads = Append(@, NewLoad)]
              ELSE w0
        q  == Len(w1.pb.promises) + 1
        w2 == [w1 EXCEPT !.pb.promises = Append(@, NewPromise("buffer", cont))]
    IN  IF w2.canplaythrough
        THEN Settle(w2, q, "fulfilled", "none")
        ELSE once(once(w2, "canplaythrough", "fulfil", q),
                  "loaderror", "reject", q)

\* The executor of the promise of play(): the subscribers that settle
\* promise q.
playPromise(w, q) ==
    once(once(once(once([w EXCEPT !.pb.promises =
                                      Append(@, NewPromise("play", "none"))],
                        "ended", "fulfil", q),
                   "loaderror", "reject", q),
              "playbackerror", "reject", q),
         "dispose", "disposed", q)

\* A variant of play() that does not test this.playing.
playStartAgain(w) ==
    IF ~w.canplaythrough THEN buffer(w, "_play")
    ELSE _play(w)

\* play() after the promise is made, up to its last two assignments.
playStart(w) ==
    IF w.pb.playing THEN w
    ELSE IF ~w.canplaythrough THEN buffer(w, "_play")
    ELSE _play(w)

\* `this.playing = true; this.ended = false`, which an exception skips.
playMark(w) ==
    IF w.pb.threw THEN w
    ELSE [w EXCEPT !.pb.playing = TRUE, !.pb.ended = FALSE]

\* Clip.play().
play(w) ==
    playMark(playStart(playPromise([w EXCEPT !.pb.paused = FALSE],
                                   Len(w.pb.promises) + 1)))

\* The setter after this.pause() returned (an exception of a 'pause'
\* callback skips it).
seekResume(w, position) ==
    IF w.pb.threw THEN w
    ELSE play([w EXCEPT !.pb.currentTime = position])

\* set currentTime(currentTime).
setCurrentTime(w, position) ==
    IF w.pb.playing
    THEN seekResume(pause(w), position)
    ELSE [w EXCEPT !.pb.currentTime = position]

\* dispose() after `if (this.playing) this.pause()` returned (an exception
\* of a 'pause' callback skips it).
disposeRest(w) ==
    IF w.pb.threw THEN w
    ELSE fire([w EXCEPT !.cancelled = IF w.loadStarted THEN TRUE ELSE @,
                        !.pb.cancels = IF w.loadStarted THEN @ + 1 ELSE @,
                        !.loadStarted = FALSE,
                        !.pb.currentTime = 0,
                        !.loaded = FALSE,
                        !.canplaythrough = FALSE,
                        !.chunks = << >>,
                        !.hist.idle = TRUE,
                        !.hist.cptSinceDispose = 0],
              "dispose")

\* Clip.dispose().
dispose(w) == disposeRest(pause(w))

\* The reactions queued by fulfilled promises run when the handler returns;
\* an exception a handler or a reaction throws ends it.
RECURSIVE RunMicrotasks(_)
RunMicrotasks(w) ==
    IF w.pb.microtasks = << >>
    THEN [w EXCEPT !.pb.threw = FALSE, !.pb.thrown = @ \/ w.pb.threw]
    ELSE RunMicrotasks(
             _play([w EXCEPT !.pb.threw = FALSE,
                             !.pb.thrown = @ \/ w.pb.threw,
                             !.pb.microtasks = Tail(@)]))

\* The state a handler leaves becomes the next state.
Assign(d) ==
    /\ heap' = d.heap
    /\ chunks' = d.chunks
    /\ loaded' = d.loaded
    /\ canplaythrough' = d.canplaythrough
    /\ loadStarted' = d.loadStarted
    /\ length' = d.length
    /\ buffered' = d.buffered
    /\ metadata' = d.metadata
    /\ cancelled' = d.cancelled
    /\ loads' = d.loads
    /\ timers' = d.timers
    /\ events' = d.events
    /\ hist' = d.hist
    /\ pb' = d.pb

Commit(w) == Assign(RunMicrotasks(w))

NoEvents == [e \in CountedEvents |-> 0]

InitPlayback ==
    [ playing |-> FALSE,           \* Clip.playing
      ended |-> FALSE,             \* Clip.ended
      currentTime |-> 0,           \* Clip._currentTime
      startTime |-> NaN,           \* Clip._startTime (undefined)
      contextTimeAtStart |-> NaN,  \* Clip._contextTimeAtStart (undefined)
      actualPlaying |-> FALSE,     \* Clip._actualPlaying
      loop |-> FALSE,              \* Clip.loop
      clock |-> 0,                 \* context.currentTime
      callbacks |-> [e \in EventNames |-> << >>],   \* Clip.callbacks
      subs |-> 0,                  \* callbacks subscribed so far
      promises |-> << >>,          \* the promises play() and buffer() made
      microtasks |-> << >>,        \* promise reactions not yet run
      sessions |-> << >>,          \* the closures of _play
      sources |-> << >>,           \* the sources the callbacks were handed
      playTimers |-> 0,            \* pending setTimeout(() => this._play())
      threw |-> FALSE,             \* the running handler threw
      \* history
      invoked |-> << >>,           \* callbacks invoked by the running fire
      misdelivered |-> FALSE,
      disordered |-> FALSE,
      aborted |-> FALSE,           \* a callback threw during a fire
      changedDuring |-> FALSE,
      addedDuring |-> FALSE,
      refired |-> FALSE,           \* a subscriber fired the event again
      onceDone |-> {},             \* wrappers of once that were invoked
      onceAgain |-> FALSE,         \* one of them was invoked again
      thrown |-> FALSE,            \* a handler threw
      plays |-> 0,                 \* calls of play()
      seeks |-> 0,                 \* assignments to currentTime
      disposes |-> 0,              \* calls of dispose()
      cancels |-> 0,               \* calls of loader.cancel()
      paused |-> FALSE ]           \* the caller's pause() stopped the clip
                                   \* and play() was not called since

Init ==
    /\ stream \in Streams
    /\ contentLength \in {0, Len(stream)}
    /\ heap = << >>
    /\ chunks = << >>
    /\ loaded = FALSE
    /\ canplaythrough = FALSE
    /\ loadStarted = FALSE
    /\ length = 0
    /\ buffered = 0
    /\ metadata = FALSE
    /\ cancelled = FALSE
    /\ loads = << >>
    /\ timers = {}
    /\ events = NoEvents
    /\ hist = InitHist
    /\ pb = InitPlayback

\* Clip.buffer() while no load is started: the closure is created and
\* loader.load() clears _cancelled and starts the fetch.
Buffer ==
    /\ ~loadStarted
    /\ Len(loads) < MaxLoads
    /\ Commit(buffer(World, "none"))
    /\ UNCHANGED <<stream, contentLength>>

\* FetchLoader.load: the response of fetch arrives.
FetchResponse(l) ==
    /\ loads[l].phase = "fetch"
    /\ \E ok \in BOOLEAN :
         Commit(
           IF cancelled THEN [World EXCEPT !.loads[l].phase = "dead"]
           ELSE IF ~ok
                THEN [onerror(World) EXCEPT !.loads[l].phase = "failed"]
                ELSE [onprogress(World, 0, contentLength) EXCEPT
                          !.loads[l].phase = "reading"])
    /\ UNCHANGED <<stream, contentLength>>

\* FetchLoader.load: reader.read() delivers the next n bytes.
ReadData(l) ==
    /\ loads[l].phase = "reading"
    /\ loads[l].pos < Len(stream)
    /\ \E n \in PieceLengths(loads[l].pos), t \in Elapsed :
         LET piece == SubSeq(stream, loads[l].pos + 1, loads[l].pos + n)
             w1    == ondata(World, l, piece, t)
             w2    == onprogress(w1, loads[l].pos + n, contentLength)
         IN  Commit(
               IF cancelled THEN [World EXCEPT !.loads[l].phase = "dead"]
               ELSE [w2 EXCEPT !.loads[l].pos = @ + n])
    /\ UNCHANGED <<stream, contentLength>>

\* FetchLoader.load: reader.read() reports the end of the stream.
ReadDone(l) ==
    /\ loads[l].phase = "reading"
    /\ loads[l].pos = Len(stream)
    /\ \E t \in Elapsed :
         Commit(
           IF cancelled THEN [World EXCEPT !.loads[l].phase = "dead"]
           ELSE onload(onprogress(World, loads[l].pos, loads[l].pos), l, t))
    /\ UNCHANGED <<stream, contentLength>>

\* FetchLoader.load: fetch or reader.read() rejects (.catch(onerror), which
\* does not look at _cancelled).
NetworkError(l) ==
    /\ loads[l].phase \in {"fetch", "reading"}
    /\ Commit([onerror(World) EXCEPT !.loads[l].phase = "failed"])
    /\ UNCHANGED <<stream, contentLength>>

\* decodeAudioData succeeds for chunk c: the frame walk sets duration.
DecodeSuccess(c) ==
    /\ heap[c].decode = "pending"
    /\ \E t \in Elapsed :
         LET fw == FrameWalk(heap[c].raw, heap[c].firstByte)
         IN  Commit(Chunk_ready(
                 [World EXCEPT !.heap[c].decode = "done",
                               !.heap[c].numFrames = fw[1],
                               !.heap[c].duration = fw[2]],
                 c, t, "decode"))
    /\ UNCHANGED <<stream, contentLength>>

\* decodeAudioData fails for chunk c with an error object.
DecodeError(c) ==
    /\ heap[c].decode = "pending"
    /\ hist.decodeFailures < MaxDecodeFailures
    /\ Commit(chunkOnerror([World EXCEPT !.heap[c].decode = "failed",
                                         !.heap[c].lastError = "error",
                                         !.hist.decodeFailures = @ + 1]))
    /\ UNCHANGED <<stream, contentLength>>

\* A variant of the retry loop that does not ask the adapter.
RetryOffsetUnchecked(raw, f) == f

\* The offset the retry loop of decode stops at, from f: the first offset
\* below raw.length - 1 the adapter validates, or the end of the loop.
RECURSIVE RetryOffset(_, _)
RetryOffset(raw, f) ==
    IF f < Len(raw) - 1 /\ ~validateChunk(raw, f)
    THEN RetryOffset(raw, f + 1)
    ELSE f

\* decodeAudioData fails for chunk c with a null error: the retry loop.
DecodeNullError(c) ==
    /\ heap[c].decode = "pending"
    /\ hist.decodeFailures < MaxDecodeFailures
    /\ LET f == RetryOffset(heap[c].raw, heap[c].firstByte + 1)
           w == [World EXCEPT !.heap[c].firstByte = f,
                              !.heap[c].lastError = "null",
                              !.hist.decodeFailures = @ + 1]
       IN  Commit(
             IF f < Len(heap[c].raw) - 1 THEN w
             ELSE chunkOnerror([w EXCEPT !.heap[c].decode = "failed"]))
    /\ UNCHANGED <<stream, contentLength>>

\* A callback handed to setTimeout by Chunk.onready runs.
RunTimer(tm) ==
    /\ tm \in timers
    /\ \E t \in Elapsed :
         Commit(RunCallback([World EXCEPT !.timers = @ \ {tm}],
                            tm.chunk, tm.cb, t))
    /\ UNCHANGED <<stream, contentLength>>

\* Clip.dispose().
Dispose ==
    /\ pb.disposes < MaxDispose
    /\ Commit(dispose([World EXCEPT !.pb.disposes = @ + 1]))
    /\ UNCHANGED <<stream, contentLength>>

\* The caller subscribes to 'canplaythrough', before loading: a callback
\* that subscribes a further one, or a callback that fires the event again
\* and then, with once, a callback of its own.
Subscribe(how) ==
    /\ pb.subs < MaxUserSubs
    /\ loads = << >>
    /\ Commit(IF how = "userAdd"
              THEN on(World, "canplaythrough", "userAdd", FALSE, 0)
              ELSE once(on(World, "canplaythrough", "userFire", FALSE, 0),
                        "canplaythrough", "userOnce", 0))
    /\ UNCHANGED <<stream, contentLength>>

Next ==
    \/ \E how \in {"userAdd", "userFire"} : Subscribe(how)
    \/ Buffer
    \/ \E l \in DOMAIN loads : FetchResponse(l)
    \/ \E l \in DOMAIN loads : ReadData(l)
    \/ \E l \in DOMAIN loads : ReadDone(l)
    \/ \E l \in DOMAIN loads : NetworkError(l)
    \/ \E c \in DOMAIN heap : DecodeSuccess(c)
    \/ \E c \in DOMAIN heap : DecodeError(c)
    \/ \E c \in DOMAIN heap : DecodeNullError(c)
    \/ \E tm \in timers : RunTimer(tm)
    \/ Dispose

Spec == Init /\ [][Next]_vars

(* --------------------------- playback actions ------------------------- *)

\* The stream played: a tag of CHUNK_SIZE bytes and PlayFrames frames. The
\* segmenter cuts it into a chunk of PlayFrames - 1 frames and one of a
\* single frame, or into one chunk when a piece ends inside the header of
\* the last frame.
PlayFrames == 3
PlayStreams == { Stream(CHUNK_SIZE, PlayFrames) }

\* The position assigned to currentTime: the end of the first of two chunks,
\* inside a single one. (Resuming after pause() starts at other positions.)
SeekPositions == {PlayFrames - 1}

PlayInit ==
    /\ stream \in PlayStreams
    /\ contentLength = Len(stream)
    /\ heap = << >>
    /\ chunks = << >>
    /\ loaded = FALSE
    /\ canplaythrough = FALSE
    /\ loadStarted = FALSE
    /\ length = 0
    /\ buffered = 0
    /\ metadata = FALSE
    /\ cancelled = FALSE
    /\ loads = << >>
    /\ timers = {}
    /\ events = NoEvents
    /\ hist = InitHist
    /\ pb = InitPlayback

\* buffer() can start a load, or none is needed.
CanBuffer == loadStarted \/ Len(loads) < MaxLoads

\* The calls of play() and assignments to currentTime the caller has made;
\* none follows dispose().
Calls == IF pb.disposes > 0 THEN MaxCalls ELSE pb.plays + pb.seeks

\* The caller calls play().
Play ==
    /\ Calls < MaxCalls
    /\ pb.playing \/ canplaythrough \/ CanBuffer
    /\ Commit(play([World EXCEPT !.pb.plays = @ + 1]))
    /\ UNCHANGED <<stream, contentLength>>

\* The caller calls pause().
Pause ==
    /\ Commit(pause([World EXCEPT !.pb.paused = @ \/ pb.playing]))
    /\ UNCHANGED <<stream, contentLength>>

\* The caller assigns currentTime (which calls play() on a playing clip).
Seek(position) ==
    /\ Calls < MaxCalls
    /\ pb.playing => canplaythrough \/ CanBuffer
    /\ Commit(setCurrentTime([World EXCEPT !.pb.seeks = @ + 1], position))
    /\ UNCHANGED <<stream, contentLength>>

\* The output clock advances. Only differences of its readings are used,
\* and the first is taken when a source is requested: it stands until then.
ClockTick ==
    /\ pb.clock < MaxClock
    /\ pb.sessions # << >>
    /\ Commit([World EXCEPT !.pb.clock = @ + 1])
    /\ UNCHANGED <<stream, contentLength>>

\* decodeAudioData of createSource succeeds for the closure k.
SourceDecoded(k) ==
    /\ pb.sessions[k].decode # "none"
    /\ Commit(sourceCallback(World, k))
    /\ UNCHANGED <<stream, contentLength>>

\* decodeAudioData of createSource fails for the closure k.
SourceFailed(k) ==
    /\ pb.sessions[k].decode # "none"
    /\ hist.decodeFailures < MaxDecodeFailures
    /\ Commit(sourceErrback([World EXCEPT !.hist.decodeFailures = @ + 1], k))
    /\ UNCHANGED <<stream, contentLength>>

\* setTimeout(tick, 500) of the closure k runs.
TickTimer(k) ==
    /\ pb.sessions[k].tick
    /\ Commit(tick([World EXCEPT !.pb.sessions[k].tick = FALSE], k))
    /\ UNCHANGED <<stream, contentLength>>

\* requestAnimationFrame(endGame) of the closure k runs.
EndGameFrame(k) ==
    /\ pb.sessions[k].endGame
    /\ Commit(endGame([World EXCEPT !.pb.sessions[k].endGame = FALSE], k))
    /\ UNCHANGED <<stream, contentLength>>

\* requestAnimationFrame(frame) of the closure k runs.
ProgressFrame(k) ==
    /\ pb.sessions[k].frame
    /\ Commit(frame([World EXCEPT !.pb.sessions[k].frame = FALSE], k))
    /\ UNCHANGED <<stream, contentLength>>

\* setTimeout(() => this._play(), 100) runs.
PlayRetry ==
    /\ pb.playTimers > 0
    /\ Commit(_play([World EXCEPT !.pb.playTimers = @ - 1]))
    /\ UNCHANGED <<stream, contentLength>>

PlayNext ==
    \/ Play
    \/ Pause
    \/ \E position \in SeekPositions : Seek(position)
    \/ ClockTick
    \/ \E k \in DOMAIN pb.sessions : SourceDecoded(k)
    \/ \E k \in DOMAIN pb.sessions : SourceFailed(k)
    \/ \E k \in DOMAIN pb.sessions : TickTimer(k)
    \/ \E k \in DOMAIN pb.sessions : EndGameFrame(k)
    \/ \E k \in DOMAIN pb.sessions : ProgressFrame(k)
    \/ PlayRetry
    \/ Dispose
    \/ \E l \in DOMAIN loads : FetchResponse(l)
    \/ \E l \in DOMAIN loads : ReadData(l)
    \/ \E l \in DOMAIN loads : ReadDone(l)
    \/ \E c \in DOMAIN heap : DecodeSuccess(c)
    \/ \E tm \in timers : RunTimer(tm)

PlaySpec == PlayInit /\ [][PlayNext]_vars

(* A caller who calls play() up to MaxCalls times and then assigns
   currentTime once while the clip plays, on a stream of a single frame:
   one chunk, whose end the clock has passed when advance finds no chunk
   after it (endGame requests no frame), and neither the loader nor
   _play's retry arms a timer. *)

SeekStreams == { Stream(CHUNK_SIZE, 1) }

SeekInit ==
    /\ stream \in SeekStreams
    /\ contentLength = Len(stream)
    /\ heap = << >>
    /\ chunks = << >>
    /\ loaded = FALSE
    /\ canplaythrough = FALSE
    /\ loadStarted = FALSE
    /\ length = 0
    /\ buffered = 0
    /\ metadata = FALSE
    /\ cancelled = FALSE
    /\ loads = << >>
    /\ timers = {}
    /\ events = NoEvents
    /\ hist = InitHist
    /\ pb = InitPlayback

\* The caller calls play().
PlayFirst ==
    /\ pb.plays < MaxCalls /\ pb.seeks = 0
    /\ pb.playing \/ canplaythrough \/ CanBuffer
    /\ Commit(play([World EXCEPT !.pb.plays = @ + 1]))
    /\ UNCHANGED <<stream, contentLength>>

\* The caller assigns currentTime on a playing clip, after the calls of
\* play().
SeekLast(position) ==
    /\ pb.plays = MaxCalls /\ pb.seeks = 0
    /\ pb.playing
    /\ canplaythrough \/ CanBuffer
    /\ Commit(setCurrentTime([World EXCEPT !.pb.seeks = @ + 1], position))
    /\ UNCHANGED <<stream, contentLength>>

SeekNext ==
    \/ PlayFirst
    \/ Pause
    \/ SeekLast(0)
    \/ ClockTick
    \/ \E k \in DOMAIN pb.sessions : SourceDecoded(k)
    \/ \E k \in DOMAIN pb.sessions : SourceFailed(k)
    \/ \E k \in DOMAIN pb.sessions : TickTimer(k)
    \/ \E k \in DOMAIN pb.sessions : ProgressFrame(k)
    \/ \E l \in DOMAIN loads : FetchResponse(l)
    \/ \E l \in DOMAIN loads : ReadData(l)
    \/ \E l \in DOMAIN loads : ReadDone(l)
    \/ \E c \in DOMAIN heap : DecodeSuccess(c)

SeekSpec == SeekInit /\ [][SeekNext]_vars

(* A clip constructed with loop: true, on the stream of PlaySpec, whose
   caller only calls play() and pause(). Its endGame never runs, so no
   frame of endGame is ever requested. *)

LoopInit ==
    /\ stream \in PlayStreams
    /\ contentLength = Len(stream)
    /\ heap = << >>
    /\ chunks = << >>
    /\ loaded = FALSE
    /\ canplaythrough = FALSE
    /\ loadStarted = FALSE
    /\ length = 0
    /\ buffered = 0
    /\ metadata = FALSE
    /\ cancelled = FALSE
    /\ loads = << >>
    /\ timers = {}
    /\ events = NoEvents
    /\ hist = InitHist
    /\ pb = [InitPlayback EXCEPT !.loop = TRUE]

LoopNext ==
    \/ PlayFirst
    \/ Pause
    \/ ClockTick
    \/ \E k \in DOMAIN pb.sessions : SourceDecoded(k)
    \/ \E k \in DOMAIN pb.sessions : SourceFailed(k)
    \/ \E k \in DOMAIN pb.sessions : TickTimer(k)
    \/ \E k \in DOMAIN pb.sessions : ProgressFrame(k)
    \/ PlayRetry
    \/ \E l \in DOMAIN loads : FetchResponse(l)
    \/ \E l \in DOMAIN loads : ReadData(l)
    \/ \E l \in DOMAIN loads : ReadDone(l)
    \/ \E c \in DOMAIN heap : DecodeSuccess(c)
    \/ \E tm \in timers : RunTimer(tm)

LoopSpec == LoopInit /\ [][LoopNext]_vars

(* A clip played while its stream is still arriving: a tag of CHUNK_SIZE
   bytes and StreamFrames frames, which the segmenter can cut into a chunk
   of two frames and one of six before the transport completes. The caller
   assigns currentTime and calls play(), MaxCalls calls in all. *)

StreamFrames == 10
LongStreams == { Stream(CHUNK_SIZE, StreamFrames) }

\* The position assigned: the end of the second chunk, which is inside the
\* stream and is the end of what is buffered when two chunks are cut.
AheadPositions == {StreamFrames - 2}

StreamInit ==
    /\ stream \in LongStreams
    /\ contentLength = Len(stream)
    /\ heap = << >>
    /\ chunks = << >>
    /\ loaded = FALSE
    /\ canplaythrough = FALSE
    /\ loadStarted = FALSE
    /\ length = 0
    /\ buffered = 0
    /\ metadata = FALSE
    /\ cancelled = FALSE
    /\ loads = << >>
    /\ timers = {}
    /\ events = NoEvents
    /\ hist = InitHist
    /\ pb = InitPlayback

StreamNext ==
    \/ Play
    \/ \E position \in AheadPositions : Seek(position)
    \/ ClockTick
    \/ \E k \in DOMAIN pb.sessions : SourceDecoded(k)
    \/ \E k \in DOMAIN pb.sessions : TickTimer(k)
    \/ \E k \in DOMAIN pb.sessions : EndGameFrame(k)
    \/ \E k \in DOMAIN pb.sessions : ProgressFrame(k)
    \/ PlayRetry
    \/ \E l \in DOMAIN loads : FetchResponse(l)
    \/ \E l \in DOMAIN loads : ReadData(l)
    \/ \E l \in DOMAIN loads : ReadDone(l)
    \/ \E c \in DOMAIN heap : DecodeSuccess(c)
    \/ \E tm \in timers : RunTimer(tm)

StreamSpec == StreamInit /\ [][StreamNext]_vars

(* ----------------------------- Clip.duration --------------------------- *)

\* get duration(): null at the first chunk whose duration is falsy, else
\* the total.
RECURSIVE ClipDuration(_, _)
ClipDuration(h, chain) ==
    IF chain = << >> THEN 0
    ELSE IF h[Head(chain)].duration = Null \/ h[Head(chain)].duration = 0
         THEN Null
         ELSE LET rest == ClipDuration(h, Tail(chain))
              IN  IF rest = Null THEN Null ELSE h[Head(chain)].duration + rest

(* ====================================================================== *)
(* Properties                                                             *)
(* ====================================================================== *)

\* The raw bytes of the chain, chunk by chunk.
ChainRaws == [i \in 1..Len(chunks) |-> heap[chunks[i]].raw]

\* Clip.buffer() was called once, nothing was disposed, and the transport
\* delivered the whole stream and ran onload to its end.
SingleLoadDone ==
    /\ Len(loads) = 1
    /\ loads[1].phase = "done"
    /\ events.dispose = 0

\* The Clip right after the first loader.load() call.
FreshClip ==
    [ heap |-> << >>, chunks |-> << >>, loaded |-> FALSE,
      canplaythrough |-> FALSE, loadStarted |-> TRUE, length |-> 0,
      buffered |-> 0, metadata |-> FALSE, cancelled |-> FALSE,
      loads |-> <<NewLoad>>, timers |-> {},
      events |-> NoEvents,
      hist |-> InitHist,
      pb |-> InitPlayback ]

\* The raw bytes of the chain ondata and onload build when the transport
\* delivers the stream s as one piece.
OnePieceRaws(s) ==
    LET w1 == ondata(FreshClip, 1, s, 0)
        w2 == onloadDrain(w1, 1, 0)
    IN  [i \in 1..Len(w2.chunks) |-> w2.heap[w2.chunks[i]].raw]

\* C1: when a stream of L bytes has been delivered (in whatever pieces) and
\* the load has completed, the lengths of the raw buffers of the chunks of
\* the chain add up to L minus the stripped header prefix: no byte was
\* dropped and none was duplicated. Stated for L of at least the prefix.
C1_RawBytesAccountForStream ==
    (SingleLoadDone /\ Len(stream) >= HEADER_PREFIX)
        => SumSeq([i \in 1..Len(chunks) |-> Len(ChainRaws[i])])
               + HEADER_PREFIX = Len(stream)

\* C2: the chunk boundaries do not depend on how the transport split the
\* stream: the chain of a completed load holds the same raw buffers as the
\* chain built from the same stream delivered as one piece.
C2_BoundariesIndependentOfPieces ==
    SingleLoadDone => ChainRaws = OnePieceRaws(stream)

\* C3: at every moment a chunk is ready exactly when attach() has been called
\* on it and its duration is known, whichever of the two came first.
C3_ReadyIffAttachedAndDecoded ==
    \A c \in DOMAIN heap :
        heap[c].ready <=> (heap[c].attached /\ heap[c].duration # Null)

\* A chunk made ready by attach() (its duration was known first) and a chunk
\* made ready by the end of its decode (attach() came first).
C3_Witness ==
    \E c, d \in DOMAIN heap :
        /\ heap[c].ready /\ heap[c].readyVia = "attach"
        /\ heap[d].ready /\ heap[d].readyVia = "decode"

\* The callbacks of chunk c that setTimeout holds.
PendingTimers(c) == Cardinality({tm \in timers : tm.chunk = c})

\* C4 as stated: for every chunk that is ready, the onready callback it was
\* constructed with has been invoked exactly once, every callback passed to
\* onready() has been invoked once or is scheduled, and no callback ran
\* before attach().
C4_EveryCallbackOnce ==
    /\ ~hist.callbackBeforeAttach
    /\ \A c \in DOMAIN heap :
          heap[c].ready =>
              /\ heap[c].ctorCalls = (IF heap[c].ctorCallback THEN 1 ELSE 0)
              /\ heap[c].onreadyCalls + PendingTimers(c) = heap[c].onreadyRegs

\* C4, amended: a chunk holds one pending callback, the last one registered
\* before it became ready. When the chunk becomes ready that callback is
\* invoked exactly once, never before attach(); a callback that onready()
\* replaced in the slot is never invoked; a callback passed to onready() of a
\* ready chunk is scheduled and invoked once. Before the chunk is ready no
\* callback is invoked.
C4_PendingCallbackOnce ==
    /\ ~hist.callbackBeforeAttach
    /\ \A c \in DOMAIN heap :
          /\ heap[c].ready =>
                /\ heap[c].callback = NoCallback
                /\ heap[c].ctorCalls =
                     (IF heap[c].ctorCallback /\ ~heap[c].ctorLost
                      THEN 1 ELSE 0)
                /\ heap[c].onreadyCalls + PendingTimers(c)
                     = heap[c].onreadyRegs - heap[c].onreadyLost
          /\ ~heap[c].ready =>
                /\ heap[c].ctorCalls = 0
                /\ heap[c].onreadyCalls = 0
                /\ PendingTimers(c) = 0

\* A ready chunk whose constructor callback was replaced by the callback of
\* onload: the first was never invoked, the second once.
C4_Witness ==
    \E c \in DOMAIN heap :
        /\ heap[c].ready
        /\ heap[c].ctorLost /\ heap[c].ctorCalls = 0
        /\ heap[c].onreadyRegs = 1 /\ heap[c].onreadyCalls = 1

\* C5: a chunk that is ready stays ready, and its raw bytes, duration, frame
\* count, extended buffer and successor link never change afterwards.
C5_ReadyChunksNeverChange ==
    [][\A c \in DOMAIN heap :
          heap[c].ready =>
              /\ heap'[c].ready
              /\ heap'[c].raw = heap[c].raw
              /\ heap'[c].duration = heap[c].duration
              /\ heap'[c].numFrames = heap[c].numFrames
              /\ heap'[c].extended = heap[c].extended
              /\ heap'[c].next = heap[c].next]_vars

\* seq is an initial part of longer.
IsPrefix(seq, longer) ==
    /\ Len(seq) <= Len(longer)
    /\ \A i \in 1..Len(seq) : seq[i] = longer[i]

\* C6: the chain only grows at its end until dispose() empties it: a step
\* that is not dispose() keeps the chain as an initial part and appends only
\* chunks constructed in that step, in the order of their construction (the
\* order in which their bytes arrived); and the successor link of a chunk,
\* once it names a chunk, names the chunk appended right after it and stays.
C6_ChainAppendOnly ==
    /\ [](\A i \in 1..Len(chunks) :
            LET nxt == heap[chunks[i]].next
            IN  IF i < Len(chunks)
                THEN nxt = chunks[i + 1]
                ELSE nxt = Undefined \/ nxt = NoChunk)
    /\ [][/\ events'.dispose = events.dispose =>
                /\ IsPrefix(chunks, chunks')
                /\ \A i \in (Len(chunks) + 1)..Len(chunks') :
                      chunks'[i] = Len(heap) + (i - Len(chunks))
          /\ events'.dispose # events.dispose => chunks' = << >>
          /\ \A c \in DOMAIN heap :
                heap[c].next > NoChunk => heap'[c].next = heap[c].next]_vars

\* A chain of three chunks, each linked to the one appended after it.
C6_Witness ==
    /\ Len(chunks) >= 3
    /\ \A i \in 1..(Len(chunks) - 1) : heap[chunks[i]].next = chunks[i + 1]

\* The transport of load l ran onload.
OnloadRan(l) == loads[l].phase = "done" \/ loads[l].onloadThrew

\* C7 as stated: every load whose transport completed has called
\* attach(no successor) exactly once, whatever the length of the stream,
\* the empty stream included.
C7_AttachNoneOncePerLoad ==
    \A l \in DOMAIN loads : OnloadRan(l) => loads[l].attachNull = 1

\* C7, amended: a load whose transport completed after delivering at least
\* one byte has called attach(no successor) exactly once, on the chunk that
\* was last in the chain, the last chunk that load constructed, and on no
\* other chunk; a load that has not completed, or whose stream was empty (no
\* chunk exists then), has not called it.
C7_AttachNoneOnceUnlessEmpty ==
    /\ \A l \in DOMAIN loads :
          /\ loads[l].attachNullOnLast
          /\ loads[l].attachNull =
               (IF OnloadRan(l) /\ Len(stream) > 0 THEN 1 ELSE 0)
    /\ \A c \in DOMAIN heap :
          /\ heap[c].attachNull <= 1
          /\ heap[c].attachNull = 1 =>
                /\ loads[heap[c].load].attachNull = 1
                /\ \A d \in DOMAIN heap :
                      heap[d].load = heap[c].load => d <= c

\* A completed load that built two chunks and attached "no successor" to
\* the second, which is last in the chain.
C7_Witness ==
    \E l \in DOMAIN loads :
        /\ loads[l].phase = "done"
        /\ loads[l].attachNull = 1
        /\ Len(chunks) >= 2
        /\ heap[chunks[Len(chunks)]].attachNull = 1
        /\ heap[chunks[Len(chunks)]].load = l
        /\ heap[chunks[1]].attachNull = 0

\* C8: Clip.duration is null while the duration of any chunk of the chain is
\* unknown, and the sum of the durations of the chunks once all are known.
C8_DurationNullOrSum ==
    ClipDuration(heap, chunks) =
        (IF \E i \in 1..Len(chunks) : heap[chunks[i]].duration = Null
         THEN Null
         ELSE SumSeq([i \in 1..Len(chunks) |-> heap[chunks[i]].duration]))

\* C9: the heuristic never sets canplaythrough (nor fires the event) while
\* Clip.length is 0, nor while the decoded duration it summed is 0.
C9_HeuristicNeedsLengthAndDuration ==
    /\ ~hist.heuristicNoLength
    /\ ~hist.heuristicNoDuration

\* The heuristic ran while the length was 0, ran again with a length but no
\* decoded duration, and canplaythrough was not set by it.
C9_Witness ==
    /\ hist.skippedNoLength
    /\ hist.skippedNoDuration
    /\ ~hist.heuristicFired

DeferredPlays(p) ==
    { q \in DOMAIN p.promises :
        /\ p.promises[q].kind = "buffer"
        /\ p.promises[q].cont = "_play"
        /\ p.promises[q].state = "pending" }

\* C11: a call of play() while canplaythrough is false leaves loading
\* started; while a play() waits and canplaythrough stays false, no 'play'
\* event is fired and no source is started; and the step that makes
\* canplaythrough true starts playback at the stored position (or arms the
\* retry of _play).
C11_PlayBeforeCanplaythrough ==
    [][ /\ (pb'.plays = pb.plays + 1 /\ ~canplaythrough) => loadStarted'
        /\ ((pb'.plays = pb.plays + 1 \/ DeferredPlays(pb) # {})
               /\ ~canplaythrough /\ ~canplaythrough') =>
              /\ events'.play = events.play
              /\ pb'.sources = pb.sources
        /\ (DeferredPlays(pb) # {} /\ ~canplaythrough /\ canplaythrough') =>
              \/ /\ events'.play > events.play
                 /\ pb'.sessions # << >>
                 /\ pb'.sessions[Len(pb'.sessions)].position = pb.currentTime
              \/ pb'.playTimers > pb.playTimers ]_vars

\* The durations of the first n chunks of a chain, summed.
RECURSIVE CumDuration(_, _, _)
CumDuration(h, chain, n) ==
    IF n = 0 THEN 0 ELSE CumDuration(h, chain, n - 1) + h[chain[n]].duration

\* Every chunk of the chain has a known duration.
DurationsKnown(h, chain) ==
    \A i \in 1..Len(chain) : h[chain[i]].duration # Null

\* C12: a _play closure created at position t, while the durations of all
\* chunks are known and 0 <= t < their sum, starts with the chunk k whose
\* cumulative bounds contain t and with the offset t minus the durations
\* before k; and assigning currentTime while playing (with canplaythrough
\* set and no retry armed) pauses and creates such a closure at the
\* position assigned.
C12_StartsAtChunkContainingPosition ==
    [][ /\ \A k \in (Len(pb.sessions) + 1)..Len(pb'.sessions) :
              LET ss == pb'.sessions[k]
                  t  == ss.position
              IN  (/\ DurationsKnown(heap', chunks')
                   /\ t # NaN /\ 0 <= t
                   /\ t < CumDuration(heap', chunks', Len(chunks'))) =>
                     /\ ss.firstIndex < Len(chunks')
                     /\ CumDuration(heap', chunks', ss.firstIndex) <= t
                     /\ t < CumDuration(heap', chunks', ss.firstIndex + 1)
                     /\ ss.timeOffset =
                            t - CumDuration(heap', chunks', ss.firstIndex)
                     /\ ss.chunk = chunks'[ss.firstIndex + 1]
        /\ (/\ pb'.seeks = pb.seeks + 1
            /\ pb.playing /\ canplaythrough
            /\ pb'.playTimers = pb.playTimers) =>
              /\ events'.pause = events.pause + 1
              /\ Len(pb'.sessions) = Len(pb.sessions) + 1
              /\ pb'.sessions[Len(pb'.sessions)].position = pb'.currentTime
      ]_vars

\* The sources of the closure k that were started, in the order of their
\* start calls (indices into pb.sources).
StartedSources(k) ==
    SelectSeq([n \in 1..Len(pb.sources) |-> n],
              LAMBDA n : pb.sources[n].session = k /\ pb.sources[n].started)

\* What a source plays: the duration of its chunk, less the offset of the
\* closure when it is the first.
PlayedDuration(n) ==
    heap[pb.sources[n].chunk].duration
      - (IF pb.sources[n].first
         THEN pb.sessions[pb.sources[n].session].timeOffset ELSE 0)

\* The durations played by the first m sources of a list, summed.
RECURSIVE SumPlayed(_, _)
SumPlayed(ns, m) ==
    IF m = 0 THEN 0 ELSE SumPlayed(ns, m - 1) + PlayedDuration(ns[m])

\* C13: in every closure of _play the first source is started at the clock
\* reading of its callback, every later source at exactly the start time of
\* its predecessor plus what the predecessor plays (its chunk's duration,
\* less the initial offset for the first), and nextStart is the first start
\* time plus the sum of what the sources started so far play.
C13_NextStartAdvancesByDuration ==
    \A k \in DOMAIN pb.sessions :
        LET ns == StartedSources(k)
        IN  Len(ns) > 0 =>
              /\ pb.sources[ns[1]].first
              /\ pb.sources[ns[1]].when = pb.sources[ns[1]].now
              /\ \A i \in 2..Len(ns) :
                    /\ ~pb.sources[ns[i]].first
                    /\ pb.sources[ns[i]].when =
                          pb.sources[ns[i - 1]].when + PlayedDuration(ns[i - 1])
              /\ pb.sessions[k].lastStart = pb.sources[ns[Len(ns)]].when
              /\ pb.sessions[k].nextStart =
                    pb.sources[ns[1]].when + SumPlayed(ns, Len(ns))

\* A closure that began inside its first chunk has started its second
\* source, whose decoded data arrived after the time it is scheduled for.
C13_Witness ==
    \E k \in DOMAIN pb.sessions :
        LET ns == StartedSources(k)
        IN  /\ Len(ns) = 2
            /\ pb.sessions[k].timeOffset > 0
            /\ pb.sources[ns[2]].now > pb.sources[ns[2]].when

\* C14: a source the callback of advance starts at S has its gain set to 0
\* at S and to 1 at S + OVERLAP, and the last value set on the gain of the
\* source before it in the closure is 0 at S + OVERLAP.
C14_CrossfadeAtNextStart ==
    \A k \in DOMAIN pb.sessions :
        LET ns == StartedSources(k)
        IN  \A i \in 2..Len(ns) :
              LET new  == pb.sources[ns[i]]
                  prev == pb.sources[ns[i - 1]]
              IN  /\ Len(new.gain) >= 2
                  /\ new.gain[1] = <<0, new.when>>
                  /\ new.gain[2] = <<1, new.when + OVERLAP>>
                  /\ prev.gain # << >>
                  /\ prev.gain[Len(prev.gain)] = <<0, new.when + OVERLAP>>

\* A closure that began at the start of its first chunk has scheduled its
\* second source ahead of the time it starts at.
C14_Witness ==
    \E k \in DOMAIN pb.sessions :
        LET ns == StartedSources(k)
        IN  /\ Len(ns) = 2
            /\ pb.sessions[k].timeOffset = 0
            /\ pb.sources[ns[2]].now < pb.sources[ns[2]].when
            /\ pb.clock < pb.sources[ns[2]].when

\* C15: (loop is false) a step fires 'ended' at most once, and when it does
\* it is the endGame of one closure that had run out of chunks and had not
\* fired it before, the output clock has reached the nextStart of that
\* closure, and the step leaves playing false, ended true and the stored
\* position 0.
C15_EndedOnceAtNextStart ==
    [][ events'.ended # events.ended =>
          /\ events'.ended = events.ended + 1
          /\ ~pb.loop
          /\ \E k \in DOMAIN pb.sessions :
                /\ pb.sessions[k].ended = 0
                /\ pb'.sessions[k].ended = 1
                /\ pb'.sessions[k].chunk = 0
                /\ pb'.sessions[k].chunkIndex > Len(chunks)
                /\ AtLeast(pb.clock, pb.sessions[k].nextStart)
                /\ \A j \in DOMAIN pb.sessions \ {k} :
                      pb'.sessions[j].ended = pb.sessions[j].ended
          /\ ~pb'.playing
          /\ pb'.ended
          /\ pb'.currentTime = 0 ]_vars

\* A closure started both chunks of the chain, ran out of chunks before the
\* clock reached its nextStart, and has fired 'ended': the promise of
\* play() is fulfilled.
C15_Witness ==
    /\ events.ended = 1
    /\ pb.ended /\ ~pb.playing /\ pb.currentTime = 0
    /\ Len(pb.sessions) = 1
    /\ pb.sessions[1].ended = 1
    /\ Len(StartedSources(1)) = 2
    /\ pb.sources[2].now < pb.sessions[1].nextStart
    /\ pb.promises[1].state = "fulfilled"

\* The position a pause() at this moment should store: the position the
\* closure of the current playback began at plus the clock time since its
\* first source was started (none when no audio was started yet), or the
\* stored position when no closure is playing (a play() that still waits).
PositionNow ==
    LET k == Len(pb.sessions)
    IN  IF k = 0 THEN pb.currentTime
        ELSE IF ~pb.sessions[k].playing THEN pb.currentTime
        ELSE IF StartedSources(k) = << >> THEN pb.sessions[k].position
        ELSE pb.sessions[k].position
               + (pb.clock - pb.sources[StartedSources(k)[1]].now)

\* A step in which pause() ran on a playing clip and nothing else did: not
\* the pause() inside dispose(), the setter of currentTime or endGame.
PauseStep ==
    /\ pb.playing
    /\ events'.pause # events.pause
    /\ pb'.seeks = pb.seeks
    /\ pb'.disposes = pb.disposes
    /\ events'.ended = events.ended

\* C16: pause() on a playing clip leaves playing false, fires 'pause' once
\* and stores the position the playback began at plus the clock time since
\* its audio started; and no source is ever started by a closure that was
\* paused, whenever its decode was requested.
C16_PauseStopsSession ==
    [][ /\ PauseStep =>
              /\ ~pb'.playing
              /\ events'.pause = events.pause + 1
              /\ pb'.currentTime = PositionNow
        /\ \A n \in DOMAIN pb'.sources :
              (pb'.sources[n].started /\ n > Len(pb.sources)) =>
                 pb'.sources[n].closurePlaying ]_vars

\* The state of the Clip as C17 reads it off playing, ended and
\* _actualPlaying.
ClipState(p) ==
    IF p.ended THEN "ended"
    ELSE IF ~p.playing THEN "paused"
    ELSE IF p.actualPlaying THEN "playing"
    ELSE "starting"

\* The transitions C17 lists ("paused" stands for stopped and paused), and
\* those a single call composes from them or that the list plainly means:
\* pause() while starting, and the setter of currentTime on a playing clip
\* (playing -> paused -> starting).
AllowedTransitions ==
    { <<"paused", "starting">>, <<"starting", "playing">>,
      <<"playing", "paused">>, <<"playing", "ended">>,
      <<"ended", "starting">>,
      <<"starting", "paused">>, <<"playing", "starting">> }

\* C17: every step that changes the state of the Clip takes one of the
\* allowed transitions; playing and ended are never true together; and
\* _actualPlaying is true only while playing is.
C17_StateMachine ==
    [][ /\ ClipState(pb') # ClipState(pb) =>
              <<ClipState(pb), ClipState(pb')>> \in AllowedTransitions
        /\ ~(pb'.playing /\ pb'.ended)
        /\ pb'.actualPlaying => pb'.playing ]_vars

\* The promises play() returned.
PlayPromises(p) ==
    { q \in DOMAIN p.promises : p.promises[q].kind = "play" }

\* C18: a call of dispose() rejects every promise of play() that was
\* pending with CLIP_WAS_DISPOSED, and leaves every promise of play() that
\* the end of playback had fulfilled as it was.
C18_DisposeRejectsPendingPlays ==
    [][ pb'.disposes = pb.disposes + 1 =>
          \A q \in PlayPromises(pb) :
              /\ pb.promises[q].state = "pending" =>
                    /\ pb'.promises[q].state = "rejected"
                    /\ pb'.promises[q].code = "CLIP_WAS_DISPOSED"
              /\ pb.promises[q].state = "fulfilled" =>
                    pb'.promises[q] = pb.promises[q] ]_vars

\* C19: a call of dispose() leaves the chain empty, loaded and
\* canplaythrough false, the stored position 0 and playing false, calls
\* loader.cancel() once if a load was started and not at all otherwise,
\* and fires 'dispose' once.
C19_DisposeResetsClip ==
    [][ pb'.disposes = pb.disposes + 1 =>
          /\ chunks' = << >>
          /\ ~loaded'
          /\ ~canplaythrough'
          /\ pb'.currentTime = 0
          /\ ~pb'.playing
          /\ pb'.cancels = pb.cancels + (IF loadStarted THEN 1 ELSE 0)
          /\ loadStarted => cancelled'
          /\ events'.dispose = events.dispose + 1 ]_vars

\* C20: every fire so far invoked exactly the callbacks that were
\* subscribed to the event when it began, each once and in the order of
\* their registration, whatever the callbacks subscribed or unsubscribed
\* meanwhile.
C20_FireDeliversSnapshot == ~pb.misdelivered

(* ------------------------ later claims: events ------------------------ *)

\* C21: no callback registered with once has been invoked a second time,
\* whoever fired the event and whenever, and a wrapper of once that was
\* invoked is subscribed to no event when the handler has run.
C21_OnceAtMostOnce ==
    /\ ~pb.onceAgain
    /\ \A e \in EventNames : \A i \in DOMAIN pb.callbacks[e] :
          pb.callbacks[e][i].once => pb.callbacks[e][i].id \notin pb.onceDone

(* ------------------------ later claims: errors ------------------------ *)

\* The promises of buffer() that are pending.
PendingBuffers(p) ==
    { q \in DOMAIN p.promises :
        p.promises[q].kind = "buffer" /\ p.promises[q].state = "pending" }

\* No load of the clip has delivered a byte, and the chain is empty.
NoDataYet == chunks = << >> /\ \A l \in DOMAIN loads : loads[l].pos = 0

\* C22: a step in which the transport reports onerror while no data has
\* arrived fires one 'loaderror', with the code COULD_NOT_LOAD, rejects the
\* pending promises of buffer(), leaves the load-started flag false so
\* that a call of buffer() then starts a load, and leaves Clip.duration
\* without a value.
C22_OnerrorBeforeData ==
    [][ (/\ NoDataYet
         /\ hist'.codes["COULD_NOT_LOAD"] = hist.codes["COULD_NOT_LOAD"] + 1)
        =>
          /\ events'.loaderror = events.loaderror + 1
          /\ hist'.codes["COULD_NOT_DECODE"] = hist.codes["COULD_NOT_DECODE"]
          /\ \A q \in PendingBuffers(pb) :
                /\ pb'.promises[q].state = "rejected"
                /\ pb'.promises[q].code = "loaderror"
          /\ ~loadStarted'
          /\ Len(buffer(World', "none").loads) = Len(loads') + 1
          /\ ClipDuration(heap', chunks') = Null ]_vars

\* The chunks whose decode failed for good.
FailedChunks(h) == { c \in DOMAIN h : h[c].decode = "failed" }

\* C23: a step in which the decode of a chunk fails for good fires one
\* 'loaderror', with the code COULD_NOT_DECODE, and changes the raw bytes,
\* the duration and the readiness of no other chunk; no other step fires
\* an error with that code; and a chunk whose decode failed stays failed,
\* is never ready and keeps an unknown duration.
C23_DecodeFailureIsLocal ==
    [][ /\ \A c \in FailedChunks(heap') \ FailedChunks(heap) :
              /\ events'.loaderror = events.loaderror + 1
              /\ hist'.codes["COULD_NOT_DECODE"] =
                     hist.codes["COULD_NOT_DECODE"] + 1
              /\ hist'.codes["COULD_NOT_LOAD"] = hist.codes["COULD_NOT_LOAD"]
              /\ \A d \in DOMAIN heap \ {c} :
                    /\ heap'[d].raw = heap[d].raw
                    /\ heap'[d].duration = heap[d].duration
                    /\ heap'[d].ready = heap[d].ready
        /\ hist'.codes["COULD_NOT_DECODE"] = Cardinality(FailedChunks(heap'))
        /\ \A c \in FailedChunks(heap) :
              /\ heap'[c].decode = "failed"
              /\ heap'[c].raw = heap[c].raw
        /\ \A c \in FailedChunks(heap') :
              ~heap'[c].ready /\ heap'[c].duration = Null ]_vars

\* The decode of one chunk of the chain failed, the chunk is attached, and
\* another chunk of the chain is ready with its duration known: one
\* 'loaderror' was fired.
C23_Witness ==
    /\ events.loaderror = 1
    /\ hist.codes["COULD_NOT_DECODE"] = 1
    /\ \E i, j \in DOMAIN chunks :
          /\ heap[chunks[i]].decode = "failed"
          /\ heap[chunks[i]].attached
          /\ heap[chunks[j]].ready
          /\ heap[chunks[j]].duration > 0

\* The sources handed to the closure k so far.
SourcesOf(p, k) == { n \in DOMAIN p.sources : p.sources[n].session = k }

\* C24: a step in which the engine fails to decode the buffer of the chunk
\* a closure of _play starts with or advances to, or in which that chunk is
\* not ready, fires one 'playbackerror' (with COULD_NOT_START_PLAYBACK for
\* the first chunk, COULD_NOT_CREATE_SOURCE after it) and lets no exception
\* out; and a closure that failed so requests and starts no further source
\* and fires no 'ended'.
C24_ScheduleFailureReported ==
    [][ \A k \in DOMAIN pb'.sessions :
          LET was == IF k \in DOMAIN pb.sessions
                     THEN pb.sessions[k]
                     ELSE NewSession(0, 0, 0)
              now == pb'.sessions[k]
          IN  /\ (now.failed /\ ~was.failed) =>
                    /\ events'.playbackerror = events.playbackerror + 1
                    /\ hist'.codes[IF was.decode = "first"
                                   THEN "COULD_NOT_START_PLAYBACK"
                                   ELSE "COULD_NOT_CREATE_SOURCE"] =
                          hist.codes[IF was.decode = "first"
                                     THEN "COULD_NOT_START_PLAYBACK"
                                     ELSE "COULD_NOT_CREATE_SOURCE"] + 1
                    /\ pb'.thrown = pb.thrown
              /\ (now.notReady /\ ~was.notReady) =>
                    /\ events'.playbackerror = events.playbackerror + 1
                    /\ pb'.thrown = pb.thrown
              /\ (was.failed \/ was.notReady) =>
                    /\ now.decode = "none"
                    /\ SourcesOf(pb', k) = SourcesOf(pb, k)
                    /\ now.ended = was.ended ]_vars

(* ----------------------- later claims: playback ----------------------- *)

\* What play() and pause() must leave alone when they have nothing to do:
\* the flags, the position, the closures of _play with their sources and
\* timers, the load, and the counts of 'play' and 'pause' fired.
PlaybackState(w) ==
    << w.pb.playing, w.pb.ended, w.pb.actualPlaying, w.pb.currentTime,
       w.pb.startTime, w.pb.contextTimeAtStart, w.pb.sessions, w.pb.sources,
       w.pb.playTimers, w.pb.microtasks, w.loadStarted, w.loads,
       w.events.play, w.events.pause >>

\* C25: a call of play() while playing is true leaves the flags, the
\* position and the scheduler as they were, starts no closure of _play and
\* fires neither 'play' nor 'pause'; and wherever playing is false, pause()
\* changes nothing at all.
C25_RedundantCallsAreNoOps ==
    [][ /\ (pb'.plays = pb.plays + 1 /\ pb.playing) =>
              PlaybackState(World') = PlaybackState(World)
        /\ ~pb.playing => pause(World) = World
        /\ ~pb'.playing => pause(World') = World' ]_vars

\* play() was called twice and nothing was paused or ended in between: the
\* second call found the clip playing, a source of the first one started.
C25_Witness ==
    /\ pb.plays = 2
    /\ events.pause = 0
    /\ events.play = 1
    /\ Cardinality(PlayPromises(pb)) = 2
    /\ Len(pb.sessions) = 1
    /\ SourcesOf(pb, 1) # {}

\* The place of chunk c in the chain (0: not in it).
PlaceInChain(chain, c) ==
    IF \E i \in DOMAIN chain : chain[i] = c
    THEN CHOOSE i \in DOMAIN chain : chain[i] = c
    ELSE 0

\* C26: (loop is true) a step in which a closure of _play takes its next
\* chunk takes the one at the running counter modulo the length of the
\* chain, which is the chunk after the one it had, and the first chunk
\* after the last; and 'ended' is never fired.
C26_LoopWrapsAround ==
    [][ /\ pb'.loop
        /\ events'.ended = 0
        /\ \A k \in DOMAIN pb.sessions :
              pb'.sessions[k].chunkIndex # pb.sessions[k].chunkIndex =>
                /\ pb'.sessions[k].chunkIndex = pb.sessions[k].chunkIndex + 1
                /\ chunks' = chunks /\ chunks # << >>
                /\ pb'.sessions[k].chunk =
                      chunks[(pb.sessions[k].chunkIndex % Len(chunks)) + 1]
                /\ PlaceInChain(chunks, pb.sessions[k].chunk) # 0
                /\ PlaceInChain(chunks, pb'.sessions[k].chunk) =
                      (PlaceInChain(chunks, pb.sessions[k].chunk)
                         % Len(chunks)) + 1 ]_vars

\* A closure played the two chunks of the chain and then, its counter
\* beyond the chain, the first chunk again: three sources were started, in
\* that order.
C26_Witness ==
    /\ Len(chunks) = 2
    /\ \E k \in DOMAIN pb.sessions :
          /\ pb.sessions[k].chunkIndex >= 3
          /\ Len(StartedSources(k)) >= 3
          /\ pb.sources[StartedSources(k)[1]].chunk = chunks[1]
          /\ pb.sources[StartedSources(k)[2]].chunk = chunks[2]
          /\ pb.sources[StartedSources(k)[3]].chunk = chunks[1]

(* ------------------------ later claims: chunks ------------------------ *)

\* The offsets after f inside the segment that the adapter confirms as the
\* start of a frame.
ValidAfter(raw, f) ==
    { g \in (f + 1)..(Len(raw) - 1) : validateChunk(raw, g) }

\* The least element of a non-empty set of numbers.
MinOf(S) == CHOOSE x \in S : \A y \in S : x <= y

\* The chunks of which a decode attempt fails in this step.
FailingNow(c) ==
    /\ c \in DOMAIN heap
    /\ heap[c].decode = "pending"
    /\ hist'.decodeFailures = hist.decodeFailures + 1
    /\ heap'[c] # heap[c]

\* What every step keeps of the decode of a chunk: an outcome reported
\* stays, and the offset of the attempts never decreases and stays inside
\* the segment (the first attempt is made at offset 0 whatever the segment).
DecodeProgress(c) ==
    /\ heap[c].decode # "pending" =>
          /\ heap'[c].decode = heap[c].decode
          /\ heap'[c].firstByte = heap[c].firstByte
    /\ heap'[c].firstByte >= heap[c].firstByte
    /\ heap'[c].firstByte > heap[c].firstByte => FailingNow(c)
    /\ heap'[c].decode = "pending" =>
          \/ heap'[c].firstByte = 0
          \/ heap'[c].firstByte < Len(heap'[c].raw)

AdapterAnswers == {"length", "zero", "null", "undefined"}

\* i += frameLength: null counts as 0, undefined makes i not a number.
Advanced(raw, i, answer) ==
    CASE answer = "length" -> i + getChunkLength(raw, i)
      [] answer = "zero" -> i
      [] answer = "null" -> i
      [] OTHER -> NaN

\* One more frame counted in front of the rest of a walk.
Counted(rest, d) ==
    [ended |-> rest.ended, numFrames |-> rest.numFrames + 1,
     duration |-> rest.duration + d]

\* The loop of the frame walk, run from offset i for at most `turns` turns
\* with an adapter that gives `answer` for every frame: whether the loop
\* condition became false, and what was counted.
RECURSIVE WalkTurns(_, _, _, _)
WalkTurns(raw, i, answer, turns) ==
    IF i = NaN \/ i >= Len(raw)
    THEN [ended |-> TRUE, numFrames |-> 0, duration |-> 0]
    ELSE IF turns = 0
    THEN [ended |-> FALSE, numFrames |-> 0, duration |-> 0]
    ELSE IF validateChunk(raw, i)
    THEN Counted(WalkTurns(raw, Advanced(raw, i, answer), answer, turns - 1),
                 getChunkDuration(raw, i))
    ELSE WalkTurns(raw, i + 1, answer, turns - 1)

\* The walk of a segment from offset i. The loop has no state but i, and a
\* turn that ends it or moves i forward can be taken Len(raw) times at
\* most: a walk that has not ended after Len(raw) + 1 turns took a turn
\* that left i where it was, and takes it again for ever.
Walk(raw, i, answer) == WalkTurns(raw, i, answer, Len(raw) + 1)

\* The offsets of a segment at or after f the adapter validates.
FrameStarts(raw, f) == { g \in f..(Len(raw) - 1) : validateChunk(raw, g) }

\* The walk of chunk c with the given answer ends, and with the length of
\* the frames for answer it counts what the chunk holds.
WalkOf(c, answer, walk) ==
    /\ walk.ended
    /\ walk.duration = walk.numFrames * FRAME_DURATION
    /\ answer = "length" =>
          /\ walk.numFrames <= Cardinality(FrameStarts(heap[c].raw,
                                                       heap[c].firstByte))
          /\ heap[c].decode = "done" =>
                /\ heap[c].numFrames = walk.numFrames
                /\ heap[c].duration = walk.duration

\* C28: after a successful decode the frame walk over the segment from the
\* first usable byte ends whatever the adapter answers for the length of a
\* frame (zero, null and nothing included), counts every validated frame
\* once, and sets the duration of the chunk once, to the sum of the
\* durations of the frames.
C28_FrameWalkTerminates ==
    \A c \in DOMAIN heap :
        heap[c].decode \in {"pending", "done"} =>
            \A answer \in AdapterAnswers :
                WalkOf(c, answer,
                       Walk(heap[c].raw, heap[c].firstByte, answer))

(* ----------------------- C29: the extended buffer --------------------- *)

\* Chunk c becomes ready in this step.
BecomesReady(c) ==
    /\ c \in DOMAIN heap'
    /\ heap'[c].ready
    /\ c \in DOMAIN heap => ~heap[c].ready

\* The bytes of chunk c of heap h from its first usable byte on, followed
\* by the first half (integer-halved) of the bytes of its successor when
\* it has one.
UsableWithHalfOfNext(h, c) ==
    slice(h[c].raw, h[c].firstByte, Len(h[c].raw))
      \o (IF h[c].next > NoChunk
          THEN slice(h[h[c].next].raw, 0, Len(h[h[c].next].raw) \div 2)
          ELSE << >>)

\* C29: when a chunk becomes ready its extended buffer is its raw bytes
\* from the first usable byte on, followed by the first half of the raw
\* bytes of its successor if it has one, and nothing else.
C29_ExtendedBufferExact ==
    [][ \A c \in DOMAIN heap' :
          BecomesReady(c) =>
              /\ heap'[c].hasExtended
              /\ heap'[c].extended = UsableWithHalfOfNext(heap', c) ]_vars

(* ---------------------- C30: when the buffer is drained --------------- *)

\* The accumulator held more than the target size when chunk ch was
\* drained, and the byte of the stream that came in then is a frame start.
DrainedAboveTargetAtFrameStart(ch) ==
    /\ ch.position.end > CHUNK_SIZE + 4
    /\ validateChunk(stream, ch.position.start + ch.position.end)

\* The first byte of chunk ch is a frame start, in the stream and in the
\* bytes the chunk holds.
BeginsAtFrameStart(ch) ==
    /\ validateChunk(stream, ch.position.start)
    /\ validateChunk(ch.raw, 0)

\* The accumulator of load l holds the bytes delivered since its last
\* drain and nothing older (as far as tempBuffer has room): every drain
\* left it empty.
AccumulatorSinceDrain(l) ==
    /\ loads[l].processedBytes + loads[l].p = loads[l].pos
    /\ loads[l].tempBuffer =
          slice(slice(stream, loads[l].processedBytes, loads[l].pos),
                0, TempBufferSize)

\* C30: a chunk made before the stream is complete is drained
\* only when the accumulator holds more than the target size and the
\* incoming byte is a frame start; so only the final chunk of a load can be
\* at or below the target size, every chunk after the first begins at a
\* frame start, and the accumulator is empty after each drain.
C30_DrainOnlyAboveTargetAtFrameStart ==
    /\ \A c \in DOMAIN heap :
          /\ ~heap[c].byOnload =>
                /\ DrainedAboveTargetAtFrameStart(heap[c])
                /\ Len(heap[c].raw) > CHUNK_SIZE + 4
          /\ heap[c].position.index > 0 => BeginsAtFrameStart(heap[c])
    /\ \A l \in DOMAIN loads :
          loads[l].phase \in {"reading", "done"} => AccumulatorSinceDrain(l)

(* ------------------- C31: one playback session at a time -------------- *)

\* The closures of _play that have not been stopped: `playing` of the
\* closure is true until its pause listener runs.
LiveSessions(p) == { k \in DOMAIN p.sessions : p.sessions[k].playing }

\* C31: at most one closure of _play is live at any time; a step in which
\* one begins leaves the playing flag of the Clip true and every earlier
\* closure stopped.
C31_OneLiveSession ==
    [][ /\ Cardinality(LiveSessions(pb')) <= 1
        /\ Len(pb'.sessions) > Len(pb.sessions) =>
              /\ pb'.playing
              /\ \A k \in DOMAIN pb.sessions : ~pb'.sessions[k].playing ]_vars

(* ------------------------- C32: after dispose() ----------------------- *)

\* What dispose() leaves of the load.
Disposed(ld, cpt, chain) == ~ld /\ ~cpt /\ chain = << >>

\* C32: from the return of dispose() to the next call of buffer(), loaded
\* and canplaythrough are false and the chain is empty, and no step fires
\* 'canplaythrough', 'load' or 'loadprogress', whatever callbacks of the
\* cancelled load arrive.
C32_NothingAfterDispose ==
    [][ hist'.idle =>
          /\ Disposed(loaded', canplaythrough', chunks')
          /\ hist.idle =>
                /\ events'.canplaythrough = events.canplaythrough
                /\ events'.load = events.load
                /\ ~hist'.idleProgress ]_vars

(* --------------------- C33: 'ended' and the end of the load ----------- *)

\* The transport of the load in progress has completed: its onload ran.
TransportCompleted == loads # << >> /\ loads[Len(loads)].phase = "done"

\* The closure k has started a source for the last chunk of the chain.
ScheduledLast(p, chain, k) ==
    /\ chain # << >>
    /\ \E n \in DOMAIN p.sources :
          /\ p.sources[n].session = k
          /\ p.sources[n].started
          /\ p.sources[n].chunk = chain[Len(chain)]

\* C33: (loop is false) a step fires 'ended' only when the transport has
\* completed and the closure whose endGame fires it has scheduled the last
\* chunk of the chain; the end of the chain as it stands during the load
\* does not end playback.
C33_EndedOnlyAfterLoad ==
    [][ events'.ended # events.ended =>
          /\ ~pb.loop
          /\ TransportCompleted
          /\ \A k \in DOMAIN pb.sessions :
                pb'.sessions[k].ended # pb.sessions[k].ended =>
                    ScheduledLast(pb, chunks, k) ]_vars

(* --------------------------- C34: after pause() ----------------------- *)

\* A step taken while the clip stays paused by the caller, other than
\* dispose() and an assignment to currentTime, which set the position
\* themselves.
StaysPaused ==
    /\ pb.paused /\ pb'.paused
    /\ pb'.disposes = pb.disposes
    /\ pb'.seeks = pb.seeks

\* C34: after pause() on a playing clip and until play() is called again,
\* no step fires 'ended' or resets the stored position to zero, the frames
\* of an endGame that was waiting for the clock included.
C34_NoEndAfterPause ==
    [][ StaysPaused =>
          /\ events'.ended = events.ended
          /\ pb'.ended = pb.ended
          /\ pb'.currentTime = pb.currentTime ]_vars

(* ------------------------ C35: the 'load' event ----------------------- *)

\* The first chunk load l cut (0: it cut none).
FirstChunkOf(l) ==
    IF \E c \in DOMAIN heap : heap[c].load = l
    THEN CHOOSE c \in DOMAIN heap :
            /\ heap[c].load = l
            /\ \A d \in DOMAIN heap : heap[d].load = l => c <= d
    ELSE 0

\* The transport of load l completed after at least one byte and the first
\* chunk it cut is decoded.
CompletedAndDecoded(l) ==
    /\ loads[l].phase = "done"
    /\ loads[l].pos > 0
    /\ FirstChunkOf(l) # 0
    /\ heap[FirstChunkOf(l)].decode = "done"
    /\ heap[loads[l].onloadChunk].decode = "done"

\* Nothing the loader started is left to run: no transport is delivering,
\* no decode is pending and no readiness callback waits for its timer.
LoaderAtRest ==
    /\ \A l \in DOMAIN loads : loads[l].phase \notin {"fetch", "reading"}
    /\ \A c \in DOMAIN heap : heap[c].decode # "pending"
    /\ timers = {}

\* C35: the callback of a load's onload fires 'load' at most once, and once
\* when the transport completed with a byte or more and the first chunk is
\* decoded, by the time nothing is left to run; canplaythrough is true when
\* 'load' is fired; and loaded implies canplaythrough in every state.
C35_LoadFiredOnce ==
    [][ /\ \A l \in DOMAIN loads' :
              /\ loads'[l].loadFired <= 1
              /\ (LoaderAtRest' /\ CompletedAndDecoded(l)') =>
                     loads'[l].loadFired = 1
        /\ events'.load # events.load => canplaythrough'
        /\ loaded' => canplaythrough' ]_vars

(* ------------------- C36: the chain after a retry --------------------- *)

\* Load r was started by buffer() after the transport of the load before it
\* failed with bytes already read, no dispose() in between, and has cut a
\* chunk.
RetryAfterError(r) ==
    /\ r > 1
    /\ loads[r - 1].phase = "failed"
    /\ ~loads[r - 1].onloadThrew
    /\ loads[r - 1].pos > 0
    /\ pb.disposes = 0
    /\ FirstChunkOf(r) # 0

\* drainBuffer left the first HEADER_PREFIX bytes of the accumulator out of
\* the raw bytes of chunk c.
PrefixStripped(c) ==
    Len(heap[c].raw) < heap[c].position.end

\* C36: once a retry after a transport error has cut a chunk, every chunk of
\* the chain is one the retry cut, no chunk of an earlier attempt has a
\* chunk of the retry as its successor, and the retry's first chunk is
\* without the header prefix.
C36_RetryChainFresh ==
    \A r \in DOMAIN loads :
        RetryAfterError(r) =>
            /\ \A i \in DOMAIN chunks : heap[chunks[i]].load = r
            /\ \A c \in DOMAIN heap :
                   (heap[c].load # r /\ heap[c].next \in DOMAIN heap) =>
                       heap[heap[c].next].load # r
            /\ PrefixStripped(FirstChunkOf(r))
====
